---- MODULE Spec2Model ----
(***************************************************************************)
(* AutoSpark: the Task Store (task_manager.py) and the File Handler         *)
(* (file_handler.py).                                                       *)
(*                                                                          *)
(* Python str values are sequences of one-character strings, so that        *)
(* strip / split / find / startswith are computed on characters.  Python    *)
(* dict objects live on a heap (heap: object id -> record) because          *)
(* list.copy() is shallow: two lists may hold the same dict.  Python list   *)
(* positions are 0-based; position i of a list is element i+1 of the        *)
(* sequence that models it.                                                 *)
(***************************************************************************)
EXTENDS Integers, Sequences, FiniteSets, TLC

\* ------------------------------------------------------------------ bounds
MaxTasks == 2
MaxText == 5

\* the longest task list handed to the File Handler
MaxFileTasks == 2

\* the longest task list whose script is run
MaxRunTasks == 2

\* the most menu actions in one session
MaxGuiSteps == 2

\* ------------------------------------------------------- task_manager.py
VARIABLES _tasks, heap, held, call, pre, prev, prepre

\* ------------------------------------------------------- file_handler.py
\* fs: the files on disk (path -> content); editor: the text in the task-list
\* editor; fcall / fprev: the last File Handler call and the one before it.
VARIABLES fs, editor, fcall, fprev

\* ------------------------------------------------------- the script at run time
\* run: the command interpreter executing a script that convert_to_bat wrote
VARIABLES run

\* ------------------------------------------------------- gui_components.py
\* gui: the application window (current_file_path, the last menu action and
\* what it showed)
VARIABLES gui

storeVars == <<_tasks, heap, held, call, pre, prev, prepre>>

fileVars == <<fs, editor, fcall, fprev>>

vars == <<_tasks, heap, held, call, pre, prev, prepre, fs, editor, fcall, fprev, run, gui>>

K_delay == <<"d", "e", "l", "a", "y">>
K_zz == <<"z", "z">>

Task(t, d, a) == [type |-> t, details |-> d, additional |-> a]

StoreTypes == {K_delay, K_zz}
StoreDetails == {<<"3">>}
StoreAdditional == {<<>>}

Range(s) == {s[k] : k \in 1..Len(s)}

Ids == 1..(2 * MaxTasks + 1)

Indexes == (0 - MaxTasks)..MaxTasks

\* the dict objects some list still refers to
Live(ts, hs) == Range(ts) \cup Range(hs)

\* the first position of x in s
First(s, x) == CHOOSE k \in 1..Len(s) : s[k] = x /\ \A j \in 1..(k - 1) : s[j] # x

\* Object identities are not observable, only which references are the same
\* object: objects are numbered in the order the two lists first mention them.
Uniq(s) ==
    LET F[k \in 0..Len(s)] ==
            IF k = 0 THEN <<>>
            ELSE IF s[k] \in Range(F[k - 1]) THEN F[k - 1] ELSE Append(F[k - 1], s[k])
    IN F[Len(s)]

\* unreferenced dicts are reclaimed
Collect(h, order) == LET u == Uniq(order) IN [n \in 1..Len(u) |-> h[u[n]]]

Renumber(order, s) == LET u == Uniq(order) IN [k \in 1..Len(s) |-> First(u, s[k])]

\* a dict literal creates a new object
NewId(live) == CHOOSE i \in Ids \ live : \A j \in Ids \ live : i <= j

\* the records a list of dict references denotes
Deref(h, s) == [k \in 1..Len(s) |-> h[s[k]]]

Tasks == Deref(heap, _tasks)

\* Python list indexing: a negative index counts from the end
PyIndex(s, i) == IF i < 0 THEN i + Len(s) ELSE i

PyValid(s, i) == 0 <= PyIndex(s, i) /\ PyIndex(s, i) < Len(s)

\* del s[i]
DelAt(s, i) ==
    IF PyValid(s, i)
    THEN SubSeq(s, 1, PyIndex(s, i)) \o SubSeq(s, PyIndex(s, i) + 2, Len(s))
    ELSE s

\* a variant that assigns one way only: s[i] = s[j]
SwapOverwrite(s, i, j) ==
    IF PyValid(s, i) /\ PyValid(s, j)
    THEN [s EXCEPT ![PyIndex(s, i) + 1] = s[PyIndex(s, j) + 1]]
    ELSE s

\* s[i], s[j] = s[j], s[i]
Swap(s, i, j) ==
    IF PyValid(s, i) /\ PyValid(s, j)
    THEN [s EXCEPT ![PyIndex(s, i) + 1] = s[PyIndex(s, j) + 1],
                   ![PyIndex(s, j) + 1] = s[PyIndex(s, i) + 1]]
    ELSE s

NoArg == Task(<<>>, <<>>, <<>>)

NoCall == [op |-> "none", index |-> 0, arg |-> NoArg, ret |-> "None"]

Called(o, i, a, r) == [op |-> o, index |-> i, arg |-> a, ret |-> r]

PyBool(b) == IF b THEN "True" ELSE "False"

\* the store after a call: new list, new heap, the caller's list
Becomes(ts, h, hs) ==
    /\ _tasks' = Renumber(ts \o hs, ts)
    /\ held' = Renumber(ts \o hs, hs)
    /\ heap' = Collect(h, ts \o hs)

\* a variant that stores details and additional in each other's place
NewTaskSwapped(task_type, details, additional) == Task(task_type, additional, details)

\* {"type": task_type, "details": details, "additional": additional}
NewTask(task_type, details, additional) == Task(task_type, details, additional)

\* a variant that inserts at the front
PrependRef(s, id) == <<id>> \o s

\* list.append
AppendRef(s, id) == Append(s, id)

\* a call that changes neither list nor any dict
Same == UNCHANGED <<_tasks, heap, held>>

add_task(task_type, details, additional) ==
    /\ Len(_tasks) < MaxTasks
    /\ LET id == NewId(Live(_tasks, held))
           h == [i \in DOMAIN heap \cup {id} |->
                    IF i = id THEN NewTask(task_type, details, additional) ELSE heap[i]]
       IN Becomes(AppendRef(_tasks, id), h, held)
    /\ call' = Called("add_task", 0, Task(task_type, details, additional), "None")

get_tasks ==
    /\ Becomes(_tasks, heap, _tasks)
    /\ call' = Called("get_tasks", 0, NoArg, "list")

set_tasks ==
    /\ Becomes(held, heap, held)
    /\ call' = Called("set_tasks", 0, NoArg, "None")

\* a variant without the lower bound
InRangeNoLower(index, n) == index < n

\* 0 <= index < len(self._tasks)
InRange(index, n) == 0 <= index /\ index < n

delete_task(index) ==
    /\ IF InRange(index, Len(_tasks))
       THEN Becomes(DelAt(_tasks, index), heap, held)
       ELSE Same
    /\ call' = Called("delete_task", index, NoArg, PyBool(InRange(index, Len(_tasks))))

\* a variant that lets position 0 move up
CanMoveUpFromZero(index, n) == 0 <= index /\ index < n

\* 0 < index < len(self._tasks)
CanMoveUp(index, n) == 0 < index /\ index < n

move_task_up(index) ==
    /\ IF CanMoveUp(index, Len(_tasks))
       THEN Becomes(Swap(_tasks, index, index - 1), heap, held)
       ELSE Same
    /\ call' = Called("move_task_up", index, NoArg, PyBool(CanMoveUp(index, Len(_tasks))))

\* a variant with move_task_up's lower bound
CanMoveDownCopiedGuard(index, n) == 0 < index /\ index < n - 1

\* 0 <= index < len(self._tasks) - 1
CanMoveDown(index, n) == 0 <= index /\ index < n - 1

move_task_down(index) ==
    /\ IF CanMoveDown(index, Len(_tasks))
       THEN Becomes(Swap(_tasks, index, index + 1), heap, held)
       ELSE Same
    /\ call' = Called("move_task_down", index, NoArg, PyBool(CanMoveDown(index, Len(_tasks))))

clear_tasks ==
    /\ Becomes(<<>>, heap, held)
    /\ call' = Called("clear_tasks", 0, NoArg, "None")

has_tasks ==
    /\ Same
    /\ call' = Called("has_tasks", 0, NoArg, PyBool(Len(_tasks) > 0))

\* ---- what a caller can do with the list get_tasks returned
CallerOps == {"caller_append", "caller_remove", "caller_swap", "caller_set_field"}

caller_append(t, d, a) ==
    /\ Len(held) < MaxTasks
    /\ LET id == NewId(Live(_tasks, held))
           h == [i \in DOMAIN heap \cup {id} |->
                    IF i = id THEN Task(t, d, a) ELSE heap[i]]
       IN Becomes(_tasks, h, Append(held, id))
    /\ call' = Called("caller_append", 0, Task(t, d, a), "None")

caller_remove(j) ==
    /\ PyValid(held, j) /\ j >= 0
    /\ Becomes(_tasks, heap, DelAt(held, j))
    /\ call' = Called("caller_remove", j, NoArg, "None")

caller_swap(j) ==
    /\ j >= 0 /\ PyValid(held, j) /\ PyValid(held, j + 1)
    /\ Becomes(_tasks, heap, Swap(held, j, j + 1))
    /\ call' = Called("caller_swap", j, NoArg, "None")

\* held[j]["type"] = t
caller_set_field(j, t) ==
    /\ j >= 0 /\ PyValid(held, j)
    /\ heap[held[j + 1]].type # t
    /\ Becomes(_tasks, [heap EXCEPT ![held[j + 1]].type = t], held)
    /\ call' = Called("caller_set_field", j, NoArg, "None")

\* ------------------------------------------------------------ Python str
Whitespace == {" ", "\t", "\n", "\r", "\f"}

RECURSIVE LStrip(_)
LStrip(s) == IF s # <<>> /\ s[1] \in Whitespace THEN LStrip(Tail(s)) ELSE s

RECURSIVE RStrip(_)
RStrip(s) ==
    IF s # <<>> /\ s[Len(s)] \in Whitespace THEN RStrip(SubSeq(s, 1, Len(s) - 1)) ELSE s

\* str.strip()
Strip(s) == RStrip(LStrip(s))

\* c in s
Contains(s, c) == \E k \in 1..Len(s) : s[k] = c

\* s.find(c): the 0-based position of the first c, or -1
Find(s, c) ==
    IF Contains(s, c)
    THEN (CHOOSE k \in 1..Len(s) : s[k] = c /\ \A j \in 1..(k - 1) : s[j] # c) - 1
    ELSE 0 - 1

\* s.rfind(c)
RFind(s, c) ==
    IF Contains(s, c)
    THEN (CHOOSE k \in 1..Len(s) : s[k] = c /\ \A j \in (k + 1)..Len(s) : s[j] # c) - 1
    ELSE 0 - 1

\* s[a:b] and s[a:] for 0 <= a
Slice(s, a, b) == SubSeq(s, a + 1, b)

SliceFrom(s, a) == SubSeq(s, a + 1, Len(s))

\* s.rsplit(c, 1)
RSplit1(s, c) ==
    IF Contains(s, c) THEN <<Slice(s, 0, RFind(s, c)), SliceFrom(s, RFind(s, c) + 1)>> ELSE <<s>>

\* s.split(c, 1)
Split1(s, c) ==
    IF Contains(s, c) THEN <<Slice(s, 0, Find(s, c)), SliceFrom(s, Find(s, c) + 1)>> ELSE <<s>>

\* s.split(c)
RECURSIVE SplitAll(_, _)
SplitAll(s, c) ==
    IF Contains(s, c)
    THEN <<Slice(s, 0, Find(s, c))>> \o SplitAll(SliceFrom(s, Find(s, c) + 1), c)
    ELSE <<s>>

StartsWith(s, p) == Len(s) >= Len(p) /\ SubSeq(s, 1, Len(p)) = p

EndsWith(s, p) == Len(s) >= Len(p) /\ SubSeq(s, Len(s) - Len(p) + 1, Len(s)) = p

\* ------------------------------------------------- parse_text_to_tasks
\* the line, stripped, is neither empty nor a comment
IsEntry(line) == line # <<>> /\ ~StartsWith(line, <<"#">>)

\* the format test of a stripped line
HasTaskFormat(line) == StartsWith(line, <<"[">>) /\ Contains(line, "]") /\ Contains(line, "|")

\* [p.strip() for p in rest.split('|', 1)]
Parts(rest) == [k \in 1..Len(Split1(rest, "|")) |-> Strip(Split1(rest, "|")[k])]

\* the dict built from a stripped line that has the task format
TaskOfLine(line) ==
    LET task_type_end == Find(line, "]")
        task_type == Strip(Slice(line, 1, task_type_end))
        rest == Strip(SliceFrom(line, task_type_end + 1))
        parts == Parts(rest)
        details == parts[1]
        additional ==
            IF Len(parts) > 1 /\ Contains(parts[2], "|")
            THEN Strip(Split1(parts[2], "|")[1])
            ELSE IF Len(parts) > 1 THEN Strip(parts[2]) ELSE <<>>
    IN Task(task_type, details, additional)

\* the loop body: what one line of the text adds to the result
ParseLine(raw) ==
    LET line == Strip(raw)
    IN IF IsEntry(line) /\ HasTaskFormat(line) THEN <<TaskOfLine(line)>> ELSE <<>>

RECURSIVE ParseLines(_)
ParseLines(lines) ==
    IF lines = <<>> THEN <<>> ELSE ParseLine(Head(lines)) \o ParseLines(Tail(lines))

\* FileHandler.parse_text_to_tasks as a function of the text
ParseText(content) == ParseLines(SplitAll(Strip(content), "\n"))

\* ------------------------------------------------- the task kinds

K_open_url == <<"o", "p", "e", "n", "_", "u", "r", "l">>

K_open_app == <<"o", "p", "e", "n", "_", "a", "p", "p">>

K_open_file == <<"o", "p", "e", "n", "_", "f", "i", "l", "e">>

K_close_app == <<"c", "l", "o", "s", "e", "_", "a", "p", "p">>

K_run_command == <<"r", "u", "n", "_", "c", "o", "m", "m", "a", "n", "d">>

K_shutdown == <<"s", "h", "u", "t", "d", "o", "w", "n">>

K_restart == <<"r", "e", "s", "t", "a", "r", "t">>

K_sleep == <<"s", "l", "e", "e", "p">>

K_screenshot == <<"s", "c", "r", "e", "e", "n", "s", "h", "o", "t">>

K_clean_temp == <<"c", "l", "e", "a", "n", "_", "t", "e", "m", "p">>

K_security_scan ==
    <<"s", "e", "c", "u", "r", "i", "t", "y", "_", "s", "c", "a", "n">>

K_delete_file == <<"d", "e", "l", "e", "t", "e", "_", "f", "i", "l", "e">>

K_empty_folder ==
    <<"e", "m", "p", "t", "y", "_", "f", "o", "l", "d", "e", "r">>

K_delete_folder ==
    <<"d", "e", "l", "e", "t", "e", "_", "f", "o", "l", "d", "e", "r">>

K_delete_folder_if_empty ==
    <<"d", "e", "l", "e", "t", "e", "_", "f", "o", "l", "d", "e", "r", "_",
      "i", "f", "_", "e", "m", "p", "t", "y">>

K_backup_folder ==
    <<"b", "a", "c", "k", "u", "p", "_", "f", "o", "l", "d", "e", "r">>

S_quick == <<"q", "u", "i", "c", "k">>

S_full == <<"f", "u", "l", "l">>

P_http == <<"h", "t", "t", "p", ":", "/", "/">>

P_https == <<"h", "t", "t", "p", "s", ":", "/", "/">>

P_ftp == <<"f", "t", "p", ":", "/", "/">>

P_file == <<"f", "i", "l", "e", ":", "/", "/">>

DotTxt == <<".", "t", "x", "t">>

DotBat == <<".", "b", "a", "t">>

\* ------------------------------------------------- save_tasks: the text

HeaderMarker ==
    <<"#", " ", "A", "u", "t", "o", "S", "p", "a", "r", "k", " ", "A", "p",
      "p", "l", "i", "c", "a", "t", "i", "o", "n", " ", "-", " ", "T", "a",
      "s", "k", " ", "L", "i", "s", "t", "\n">>

HeaderGenerated ==
    <<"#", " ", "G", "e", "n", "e", "r", "a", "t", "e", "d", " ", "o", "n",
      ":", " ">>

HeaderFormat ==
    <<"#", " ", "F", "o", "r", "m", "a", "t", ":", " ", "[", "T", "a", "s",
      "k", " ", "T", "y", "p", "e", "]", " ", "|", " ", "[", "D", "e", "t",
      "a", "i", "l", "s", "]", " ", "|", " ", "[", "A", "d", "d", "i", "t",
      "i", "o", "n", "a", "l", " ", "I", "n", "f", "o", " ", "(", "o", "p",
      "t", "i", "o", "n", "a", "l", ")", "]", "\n", "\n">>

\* time.strftime("%Y-%m-%d %H:%M:%S") at two moments

Stamp1 ==
    <<"2", "0", "2", "6", "-", "0", "1", "-", "0", "2", " ", "0", "3", ":",
      "0", "4", ":", "0", "5">>

Stamp2 ==
    <<"2", "0", "2", "6", "-", "1", "1", "-", "3", "0", " ", "2", "3", ":",
      "5", "9", ":", "5", "9">>

\* a variant that writes the type without its brackets
TaskLineBare(task) == task.type \o <<" ", "|", " ">> \o task.details \o <<"\n">>

\* f"[{task_type}] | {details}", then f" | {additional}" if additional, then "\n"
TaskLine(task) ==
    <<"[">> \o task.type \o <<"]", " ", "|", " ">> \o task.details
        \o (IF task.additional # <<>> THEN <<" ", "|", " ">> \o task.additional ELSE <<>>)
        \o <<"\n">>

RECURSIVE TaskLines(_)
TaskLines(tasks) ==
    IF tasks = <<>> THEN <<>> ELSE TaskLine(Head(tasks)) \o TaskLines(Tail(tasks))

\* everything save_tasks writes to the text file
SaveText(tasks, stamp) ==
    HeaderMarker \o HeaderGenerated \o stamp \o <<"\n">> \o HeaderFormat \o TaskLines(tasks)

\* ------------------------------------------------- int(details)
Digits == <<"0", "1", "2", "3", "4", "5", "6", "7", "8", "9">>

IsDigit(c) == \E k \in 1..10 : Digits[k] = c

DigitVal(c) == (CHOOSE k \in 1..10 : Digits[k] = c) - 1

\* the text of an int literal without its sign
Unsigned(s) ==
    LET t == Strip(s) IN IF t # <<>> /\ t[1] \in {"+", "-"} THEN Tail(t) ELSE t

\* int(s) does not raise ValueError (ASCII digits, single underscores between them)
IsInt(s) ==
    LET u == Unsigned(s)
    IN /\ u # <<>>
       /\ IsDigit(u[1]) /\ IsDigit(u[Len(u)])
       /\ \A k \in 1..Len(u) : IsDigit(u[k]) \/ u[k] = "_"
       /\ \A k \in 1..(Len(u) - 1) : ~(u[k] = "_" /\ u[k + 1] = "_")

RECURSIVE Magnitude(_)
Magnitude(u) ==
    IF u = <<>> THEN 0
    ELSE IF u[Len(u)] = "_" THEN Magnitude(SubSeq(u, 1, Len(u) - 1))
    ELSE 10 * Magnitude(SubSeq(u, 1, Len(u) - 1)) + DigitVal(u[Len(u)])

IntVal(s) ==
    IF Strip(s)[1] = "-" THEN 0 - Magnitude(Unsigned(s)) ELSE Magnitude(Unsigned(s))

\* ------------------------------------------------- paths (Windows os.path)
UpperCase ==
    <<"A", "B", "C", "D", "E", "F", "G", "H", "I", "J", "K", "L", "M",
      "N", "O", "P", "Q", "R", "S", "T", "U", "V", "W", "X", "Y", "Z">>

LowerCase ==
    <<"a", "b", "c", "d", "e", "f", "g", "h", "i", "j", "k", "l", "m",
      "n", "o", "p", "q", "r", "s", "t", "u", "v", "w", "x", "y", "z">>

\* str.lower()
Lower(s) ==
    [k \in 1..Len(s) |->
        IF \E n \in 1..26 : UpperCase[n] = s[k]
        THEN LowerCase[CHOOSE n \in 1..26 : UpperCase[n] = s[k]]
        ELSE s[k]]

\* the 0-based position of the last path separator, or -1
LastSep(p) == IF RFind(p, "/") > RFind(p, "\\") THEN RFind(p, "/") ELSE RFind(p, "\\")

\* os.path.basename (paths without a drive)
Basename(p) == SliceFrom(p, LastSep(p) + 1)

\* os.path.splitext(p)[0]: cut at the last dot of the file name, unless the
\* name has only dots before it
SplitextBase(p) ==
    IF /\ RFind(p, ".") > LastSep(p)
       /\ \E k \in (LastSep(p) + 1)..(RFind(p, ".") - 1) : p[k + 1] # "."
    THEN Slice(p, 0, RFind(p, "."))
    ELSE p

get_bat_path(txt_file_path) == SplitextBase(txt_file_path) \o DotBat

\* a variant that leaves the path as it is stored
SafePathVerbatim(s) == s

\* details.replace('/', '\\')
SafePath(s) == [k \in 1..Len(s) |-> IF s[k] = "/" THEN "\\" ELSE s[k]]

\* ------------------------------------------------- convert_to_bat: the script
\* A script is a sequence of lines.  A line is the format string that wrote
\* it (t), with its interpolated values in order of appearance: texts in v,
\* a number in n.
Ln(t, n, v) == [t |-> t, n |-> n, v |-> v]

ScriptHeader(txt_file_path) ==
    <<Ln("@echo off", 0, <<>>),
      Ln("echo AutoSpark Application - Task Execution", 0, <<>>),
      Ln("echo Generated from: {basename}", 0, <<Basename(txt_file_path)>>),
      Ln("echo Run time: %DATE% %TIME%", 0, <<>>),
      Ln("echo.", 0, <<>>),
      Ln("", 0, <<>>)>>

\* a variant that numbers the tasks from 0
AnnounceFromZero(i, task_type) ==
    <<Ln("REM Task {i}: {task_type}", i - 1, <<task_type>>),
      Ln("echo Executing Task {i}: {task_type}", i - 1, <<task_type>>)>>

\* the REM line and the echo line that start the block of task i
Announce(i, task_type) ==
    <<Ln("REM Task {i}: {task_type}", i, <<task_type>>),
      Ln("echo Executing Task {i}: {task_type}", i, <<task_type>>)>>

\* a variant that knows the web schemes only
HasSchemeWeb(url) == StartsWith(url, P_http) \/ StartsWith(url, P_https)

HasScheme(url) ==
    \/ StartsWith(url, P_http)
    \/ StartsWith(url, P_https)
    \/ StartsWith(url, P_ftp)
    \/ StartsWith(url, P_file)

\* _write_url_code
Code_open_url(details) ==
    LET url == IF HasScheme(details) THEN details ELSE P_https \o details
    IN <<Ln("echo Opening URL in default web browser...", 0, <<>>)>>
       \o (IF HasScheme(details) THEN <<>>
           ELSE <<Ln("echo No protocol specified, using https:// by default", 0, <<>>)>>)
       \o <<Ln("echo Using start command...", 0, <<>>),
            Ln("start \"\" \"{url}\"", 0, <<url>>),
            Ln("if %ERRORLEVEL% NEQ 0 (", 0, <<>>),
            Ln("    echo ERROR: Failed to open URL.", 0, <<>>),
            Ln("    echo URL: {url}", 0, <<url>>),
            Ln(") else (", 0, <<>>),
            Ln("    echo Successfully opened URL: {url}", 0, <<url>>),
            Ln(")", 0, <<>>),
            Ln("", 0, <<>>),
            Ln(":url_end", 0, <<>>)>>

\* seconds = int(details)
Code_delay(details) ==
    <<Ln("echo Waiting for {seconds} seconds...", IntVal(details), <<>>),
      Ln("timeout /t {seconds} /nobreak >nul", IntVal(details), <<>>)>>

Code_security_scan(details) ==
    LET scan_type == Lower(details)
    IN <<Ln("echo Running {scan_type} security scan...", 0, <<scan_type>>),
         IF scan_type = S_quick
         THEN Ln("powershell -Command \"Start-MpScan -ScanType QuickScan\"", 0, <<>>)
         ELSE IF scan_type = S_full
         THEN Ln("powershell -Command \"Start-MpScan -ScanType FullScan\"", 0, <<>>)
         ELSE Ln("powershell -Command \"Start-MpScan -ScanType CustomScan\"", 0, <<>>)>>

\* a variant whose notice does not name the type
Code_unknownUnnamed(task_type) == <<Ln("echo Unknown task type", 0, <<>>)>>

Code_unknown(task_type) == <<Ln("echo Unknown task type: {task_type}", 0, <<task_type>>)>>

Code_open_app(details) ==
    <<Ln("start \"\" \"{details}\"", 0, <<details>>)>>

Code_open_file(details) ==
    <<Ln("start \"\" \"{details}\"", 0, <<details>>)>>

Code_close_app(details) ==
    <<Ln("taskkill /f /im \"{details}\" >nul 2>&1", 0, <<details>>),
      Ln("if %ERRORLEVEL% EQU 0 (echo Successfully closed {details}) else (echo Failed to close {details})", 0, <<>>)>>

Code_run_command(details) ==
    <<Ln("{details}", 0, <<details>>)>>

Code_shutdown(details) ==
    <<Ln("echo System will shutdown in {details} seconds...", 0, <<details>>),
      Ln("shutdown /s /t {details}", 0, <<details>>)>>

Code_restart(details) ==
    <<Ln("echo System will restart in {details} seconds...", 0, <<details>>),
      Ln("shutdown /r /t {details}", 0, <<details>>)>>

Code_sleep ==
    <<Ln("echo Putting system to sleep...", 0, <<>>),
      Ln("rundll32.exe powrprof.dll,SetSuspendState 0,1,0", 0, <<>>)>>

Code_screenshot(details) ==
    LET safe_path == SafePath(details) IN
    <<Ln("echo Taking screenshot...", 0, <<>>),
      Ln("if not exist \"{safe_path}\" mkdir \"{safe_path}\"", 0, <<safe_path, safe_path>>),
      Ln("powershell -NoProfile -ExecutionPolicy Bypass -Command \"$ts=Get-Date -Format \\\"yyyy-MM-dd_HH-mm-ss\\\"; $path=\\\"{safe_path}\\screenshot_$ts.png\\\"; [void][Reflection.Assembly]::LoadWithPartialName(\\\"System.Windows.Forms\\\"); [void][Reflection.Assembly]::LoadWithPartialName(\\\"System.Drawing\\\"); $bounds = [System.Windows.Forms.Screen]::PrimaryScreen.Bounds; $bmp = New-Object System.Drawing.Bitmap $bounds.Width, $bounds.Height; $g = [System.Drawing.Graphics]::FromImage($bmp); $g.CopyFromScreen($bounds.X, $bounds.Y, 0, 0, $bounds.Size); $bmp.Save($path); $g.Dispose(); $bmp.Dispose(); Write-Host \\\"Screenshot saved to: $path\\\"\"", 0, <<safe_path>>),
      Ln("if %ERRORLEVEL% NEQ 0 echo ERROR: Failed to take screenshot", 0, <<>>),
      Ln("", 0, <<>>)>>

Code_clean_temp ==
    <<Ln("echo Cleaning temporary files...", 0, <<>>),
      Ln("del /q /f /s \"%TEMP%\\*\" >nul 2>&1", 0, <<>>),
      Ln("echo Temporary files cleaned.", 0, <<>>)>>

Code_delete_file(details) ==
    LET safe_path == SafePath(details) IN
    <<Ln("echo Deleting file: {safe_path}", 0, <<safe_path>>),
      Ln("if exist \"{safe_path}\" (", 0, <<safe_path>>),
      Ln("  del /F /Q \"{safe_path}\"", 0, <<safe_path>>),
      Ln("  echo Return code: %ERRORLEVEL%", 0, <<>>),
      Ln("  if %ERRORLEVEL% NEQ 0 (", 0, <<>>),
      Ln("    echo ERROR: Failed to delete file with code %ERRORLEVEL%", 0, <<>>),
      Ln("  ) else (", 0, <<>>),
      Ln("    echo Successfully deleted file: {safe_path}", 0, <<safe_path>>),
      Ln("  )", 0, <<>>),
      Ln(") else (", 0, <<>>),
      Ln("  echo WARNING: File not found: {safe_path}", 0, <<safe_path>>),
      Ln(")", 0, <<>>)>>

\* a variant that removes the folder with everything in it
Code_empty_folderAndItself(details) ==
    LET safe_path == SafePath(details) IN
    <<Ln("echo Emptying folder: {safe_path}", 0, <<safe_path>>),
      Ln("if exist \"{safe_path}\" (", 0, <<safe_path>>),
      Ln("  echo Deleting all subfolders in: {safe_path}", 0, <<safe_path>>),
      Ln("  for /d %%i in (\"{safe_path}\\*\") do (", 0, <<safe_path>>),
      Ln("    rmdir /s /q \"%%i\" >nul 2>&1", 0, <<>>),
      Ln("  )", 0, <<>>),
      Ln("  echo Deleting all files in: {safe_path}", 0, <<safe_path>>),
      Ln("  rmdir /s /q \"{safe_path}\"", 0, <<safe_path>>),
      Ln("  echo Return code: %ERRORLEVEL%", 0, <<>>),
      Ln("  if %ERRORLEVEL% NEQ 0 (", 0, <<>>),
      Ln("    echo ERROR: Failed to empty folder with code %ERRORLEVEL%", 0, <<>>),
      Ln("  ) else (", 0, <<>>),
      Ln("    echo Successfully emptied folder: {safe_path}", 0, <<safe_path>>),
      Ln("  )", 0, <<>>),
      Ln(") else (", 0, <<>>),
      Ln("  echo WARNING: Folder not found: {safe_path}", 0, <<safe_path>>),
      Ln(")", 0, <<>>)>>

\* elif task_type == "empty_folder": the lines written
Code_empty_folder(details) ==
    LET safe_path == SafePath(details) IN
    <<Ln("echo Emptying folder: {safe_path}", 0, <<safe_path>>),
      Ln("if exist \"{safe_path}\" (", 0, <<safe_path>>),
      Ln("  echo Deleting all subfolders in: {safe_path}", 0, <<safe_path>>),
      Ln("  for /d %%i in (\"{safe_path}\\*\") do (", 0, <<safe_path>>),
      Ln("    rmdir /s /q \"%%i\" >nul 2>&1", 0, <<>>),
      Ln("  )", 0, <<>>),
      Ln("  echo Deleting all files in: {safe_path}", 0, <<safe_path>>),
      Ln("  del /f /q \"{safe_path}\\*\" >nul 2>&1", 0, <<safe_path>>),
      Ln("  echo Return code: %ERRORLEVEL%", 0, <<>>),
      Ln("  if %ERRORLEVEL% NEQ 0 (", 0, <<>>),
      Ln("    echo ERROR: Failed to empty folder with code %ERRORLEVEL%", 0, <<>>),
      Ln("  ) else (", 0, <<>>),
      Ln("    echo Successfully emptied folder: {safe_path}", 0, <<safe_path>>),
      Ln("  )", 0, <<>>),
      Ln(") else (", 0, <<>>),
      Ln("  echo WARNING: Folder not found: {safe_path}", 0, <<safe_path>>),
      Ln(")", 0, <<>>)>>

\* a variant that removes the folder before it looks whether it is there
Code_delete_folderUnguarded(details) ==
    LET safe_path == SafePath(details) IN
    <<Ln("echo Deleting folder: {safe_path}", 0, <<safe_path>>),
      Ln("  rmdir /s /q \"{safe_path}\"", 0, <<safe_path>>),
      Ln("if exist \"{safe_path}\" (", 0, <<safe_path>>),
      Ln("  echo Return code: %ERRORLEVEL%", 0, <<>>),
      Ln("  if %ERRORLEVEL% NEQ 0 (", 0, <<>>),
      Ln("    echo ERROR: Failed to delete folder with code %ERRORLEVEL%", 0, <<>>),
      Ln("  ) else (", 0, <<>>),
      Ln("    echo Successfully deleted folder and its contents: {safe_path}", 0, <<safe_path>>),
      Ln("  )", 0, <<>>),
      Ln(") else (", 0, <<>>),
      Ln("  echo WARNING: Folder not found: {safe_path}", 0, <<safe_path>>),
      Ln(")", 0, <<>>)>>

\* elif task_type == "delete_folder": the lines written
Code_delete_folder(details) ==
    LET safe_path == SafePath(details) IN
    <<Ln("echo Deleting folder: {safe_path}", 0, <<safe_path>>),
      Ln("if exist \"{safe_path}\" (", 0, <<safe_path>>),
      Ln("  rmdir /s /q \"{safe_path}\"", 0, <<safe_path>>),
      Ln("  echo Return code: %ERRORLEVEL%", 0, <<>>),
      Ln("  if %ERRORLEVEL% NEQ 0 (", 0, <<>>),
      Ln("    echo ERROR: Failed to delete folder with code %ERRORLEVEL%", 0, <<>>),
      Ln("  ) else (", 0, <<>>),
      Ln("    echo Successfully deleted folder and its contents: {safe_path}", 0, <<safe_path>>),
      Ln("  )", 0, <<>>),
      Ln(") else (", 0, <<>>),
      Ln("  echo WARNING: Folder not found: {safe_path}", 0, <<safe_path>>),
      Ln(")", 0, <<>>)>>

\* a variant that removes the folder with everything in it
Code_delete_folder_if_emptyTree(details) ==
    LET safe_path == SafePath(details) IN
    <<Ln("echo Attempting to delete folder (only if empty): {safe_path}", 0, <<safe_path>>),
      Ln("if exist \"{safe_path}\" (", 0, <<safe_path>>),
      Ln("  rmdir /s /q \"{safe_path}\"", 0, <<safe_path>>),
      Ln("  if exist \"{safe_path}\" (", 0, <<safe_path>>),
      Ln("    echo WARNING: Could not delete folder {safe_path} - it may not be empty or is locked", 0, <<safe_path>>),
      Ln("  ) else (", 0, <<>>),
      Ln("    echo Successfully deleted empty folder: {safe_path}", 0, <<safe_path>>),
      Ln("  )", 0, <<>>),
      Ln(") else (", 0, <<>>),
      Ln("  echo WARNING: Folder not found: {safe_path}", 0, <<safe_path>>),
      Ln(")", 0, <<>>)>>

\* (the dash of the warning is an em dash in the source)
Code_delete_folder_if_empty(details) ==
    LET safe_path == SafePath(details) IN
    <<Ln("echo Attempting to delete folder (only if empty): {safe_path}", 0, <<safe_path>>),
      Ln("if exist \"{safe_path}\" (", 0, <<safe_path>>),
      Ln("  rmdir /q \"{safe_path}\"", 0, <<safe_path>>),
      Ln("  if exist \"{safe_path}\" (", 0, <<safe_path>>),
      Ln("    echo WARNING: Could not delete folder {safe_path} - it may not be empty or is locked", 0, <<safe_path>>),
      Ln("  ) else (", 0, <<>>),
      Ln("    echo Successfully deleted empty folder: {safe_path}", 0, <<safe_path>>),
      Ln("  )", 0, <<>>),
      Ln(") else (", 0, <<>>),
      Ln("  echo WARNING: Folder not found: {safe_path}", 0, <<safe_path>>),
      Ln(")", 0, <<>>)>>

Code_backup_folder(details, additional) ==
    LET safe_source == SafePath(details)
        safe_dest == SafePath(additional)
    IN
    <<Ln("echo Backing up folder: {safe_source}", 0, <<safe_source>>),
      Ln("echo to: {safe_dest}", 0, <<safe_dest>>),
      Ln("if not exist \"{safe_source}\" (", 0, <<safe_source>>),
      Ln("  echo ERROR: Source folder not found: {safe_source}", 0, <<safe_source>>),
      Ln("  goto :backup_error", 0, <<>>),
      Ln(")", 0, <<>>),
      Ln("if not exist \"{safe_dest}\" (", 0, <<safe_dest>>),
      Ln("  mkdir \"{safe_dest}\"", 0, <<safe_dest>>),
      Ln("  if %ERRORLEVEL% NEQ 0 (", 0, <<>>),
      Ln("    echo ERROR: Could not create destination folder: {safe_dest}", 0, <<safe_dest>>),
      Ln("    goto :backup_error", 0, <<>>),
      Ln("  )", 0, <<>>),
      Ln(")", 0, <<>>),
      Ln("for %%I in (\"{safe_source}\") do set \"source_name=%%~nxI\"", 0, <<safe_source>>),
      Ln("set \"dest_path={safe_dest}\\%source_name%\"", 0, <<safe_dest>>),
      Ln("if not exist \"%dest_path%\" (", 0, <<>>),
      Ln("  mkdir \"%dest_path%\"", 0, <<>>),
      Ln("  if %ERRORLEVEL% NEQ 0 (", 0, <<>>),
      Ln("    echo ERROR: Could not create destination folder: %dest_path%", 0, <<>>),
      Ln("    goto :backup_error", 0, <<>>),
      Ln("  )", 0, <<>>),
      Ln(")", 0, <<>>),
      Ln("xcopy \"{safe_source}\\*\" \"%dest_path%\" /E /H /C /I /Y", 0, <<safe_source>>),
      Ln("if %ERRORLEVEL% NEQ 0 (", 0, <<>>),
      Ln("  echo ERROR: Backup operation failed", 0, <<>>),
      Ln("  goto :backup_error", 0, <<>>),
      Ln(") else (", 0, <<>>),
      Ln("  echo Successfully backed up {safe_source} to %dest_path%", 0, <<safe_source>>),
      Ln(")", 0, <<>>),
      Ln("goto :backup_end", 0, <<>>),
      Ln(":backup_error", 0, <<>>),
      Ln("echo Backup operation failed", 0, <<>>),
      Ln(":backup_end", 0, <<>>)>>

\* the if / elif chain over task_type
KindCode(task) ==
    IF task.type = K_open_url THEN Code_open_url(task.details)
    ELSE IF task.type = K_open_app THEN Code_open_app(task.details)
    ELSE IF task.type = K_open_file THEN Code_open_file(task.details)
    ELSE IF task.type = K_close_app THEN Code_close_app(task.details)
    ELSE IF task.type = K_run_command THEN Code_run_command(task.details)
    ELSE IF task.type = K_delay THEN Code_delay(task.details)
    ELSE IF task.type = K_shutdown THEN Code_shutdown(task.details)
    ELSE IF task.type = K_restart THEN Code_restart(task.details)
    ELSE IF task.type = K_sleep THEN Code_sleep
    ELSE IF task.type = K_screenshot THEN Code_screenshot(task.details)
    ELSE IF task.type = K_clean_temp THEN Code_clean_temp
    ELSE IF task.type = K_security_scan THEN Code_security_scan(task.details)
    ELSE IF task.type = K_delete_file THEN Code_delete_file(task.details)
    ELSE IF task.type = K_empty_folder THEN Code_empty_folder(task.details)
    ELSE IF task.type = K_delete_folder THEN Code_delete_folder(task.details)
    ELSE IF task.type = K_delete_folder_if_empty
    THEN Code_delete_folder_if_empty(task.details)
    ELSE IF task.type = K_backup_folder THEN Code_backup_folder(task.details, task.additional)
    ELSE Code_unknown(task.type)

\* a variant that converts the details of every countdown with int()
TaskRaisesAnyCountdown(task) ==
    task.type \in {K_delay, K_shutdown, K_restart} /\ ~IsInt(task.details)

\* the task whose code generation raises: int(details) on a delay task
TaskRaises(task) == task.type = K_delay /\ ~IsInt(task.details)

TaskEnd == <<Ln("echo.", 0, <<>>), Ln("", 0, <<>>)>>

\* a variant that closes the script without the pause
ScriptEndNoPause == <<Ln("echo All tasks completed.", 0, <<>>)>>

ScriptEnd == <<Ln("echo All tasks completed.", 0, <<>>), Ln("pause", 0, <<>>)>>

\* What convert_to_bat has written when the file is closed, and whether it
\* raised: the loop stops at the first task that raises, after its
\* announcement.
Script(tasks, txt_file_path) ==
    LET F[k \in 0..Len(tasks)] ==
            IF k = 0 THEN [raised |-> FALSE, lines |-> ScriptHeader(txt_file_path)]
            ELSE IF F[k - 1].raised THEN F[k - 1]
            ELSE IF TaskRaises(tasks[k])
            THEN [raised |-> TRUE,
                  lines |-> F[k - 1].lines \o Announce(k, tasks[k].type)]
            ELSE [raised |-> FALSE,
                  lines |-> F[k - 1].lines \o Announce(k, tasks[k].type)
                                \o KindCode(tasks[k]) \o TaskEnd]
    IN IF F[Len(tasks)].raised THEN F[Len(tasks)]
       ELSE [raised |-> FALSE, lines |-> F[Len(tasks)].lines \o ScriptEnd]

\* ------------------------------------------------- the script at run time
\* The interpreter reads one command at a time from the script: a line, or a
\* whole parenthesised block from the line that opens it to the one that
\* closes it.  %NAME% is replaced when the command is read, so inside a block
\* %ERRORLEVEL% and %dest_path% have the values they had before the block.
\* A line is recognized by the format string that wrote it.

\* no script is running.  disk: path -> "absent" / "empty" / "full", disk0:
\* the disk when the script was started; i: the directory the for loop is at;
\* out: the instructions executed so far, [at: line, status: exit status or,
\* for an if, 1 when its condition held]; goto: the label being jumped to.
NoRun ==
    [state |-> "idle", tasks |-> <<>>, script |-> <<>>, pc |-> 0, disk |-> <<>>,
     disk0 |-> <<>>, errorlevel |-> 0, source_name |-> <<>>, dest_path |-> <<>>, out |-> <<>>,
     goto |-> "", i |-> <<>>]

IfNotExistLines ==
    {"if not exist \"{safe_source}\" (", "if not exist \"{safe_dest}\" (",
     "if not exist \"%dest_path%\" ("}

IfExistLines == {"if exist \"{safe_path}\" (", "  if exist \"{safe_path}\" ("}

IfErrorLines == {"if %ERRORLEVEL% NEQ 0 (", "  if %ERRORLEVEL% NEQ 0 ("}

ElseLines == {") else (", "  ) else ("}

CloseLines == {")", "  )"}

\* a variant in which the goto of the source check is not a jump
GotoLinesNested == {"    goto :backup_error", "goto :backup_end"}

GotoLines == {"  goto :backup_error", "    goto :backup_error", "goto :backup_end"}

LabelLines == {":backup_error", ":backup_end", ":url_end"}

MkdirLines == {"  mkdir \"{safe_dest}\"", "  mkdir \"%dest_path%\""}

RmdirLines == {"  rmdir /q \"{safe_path}\""}

RmdirTreeLines == {"  rmdir /s /q \"{safe_path}\""}

XcopyLines == {"xcopy \"{safe_source}\\*\" \"%dest_path%\" /E /H /C /I /Y"}

StartLines == {"start \"\" \"{url}\""}

DelLines == {"  del /F /Q \"{safe_path}\""}

\* for /d: its block is run once for every subdirectory of the folder
ForDirLines == {"  for /d %%i in (\"{safe_path}\\*\") do ("}

RmdirEachLines == {"    rmdir /s /q \"%%i\" >nul 2>&1"}

DelFilesLines == {"  del /f /q \"{safe_path}\\*\" >nul 2>&1"}

TaskkillLines == {"taskkill /f /im \"{details}\" >nul 2>&1"}

\* if ... (echo ...) else (echo ...) on one line
IfElseLines ==
    {"if %ERRORLEVEL% EQU 0 (echo Successfully closed {details}) else (echo Failed to close {details})"}

\* the lines that run a command with an exit status
CommandLines ==
    MkdirLines \cup RmdirLines \cup RmdirTreeLines \cup XcopyLines \cup StartLines
        \cup DelLines \cup RmdirEachLines \cup DelFilesLines \cup TaskkillLines

OpenLines == IfNotExistLines \cup IfExistLines \cup IfErrorLines

\* the lines that end with an opening parenthesis
BlockLines == OpenLines \cup ForDirLines

\* the label a goto line names or a label line defines
LabelOf(t) ==
    IF t \in {"  goto :backup_error", "    goto :backup_error", ":backup_error"}
    THEN "backup_error"
    ELSE IF t \in {"goto :backup_end", ":backup_end"} THEN "backup_end"
    ELSE IF t = ":url_end" THEN "url_end"
    ELSE ""

\* the line that closes the block open at p - 1 (depth = 1)
RECURSIVE CloseOf(_, _, _)
CloseOf(lines, p, depth) ==
    IF p > Len(lines) THEN Len(lines)
    ELSE IF lines[p].t \in BlockLines THEN CloseOf(lines, p + 1, depth + 1)
    ELSE IF lines[p].t \in CloseLines
    THEN IF depth = 1 THEN p ELSE CloseOf(lines, p + 1, depth - 1)
    ELSE CloseOf(lines, p + 1, depth)

\* the ") else (" of the block open at p - 1 and closed at c, or 0
RECURSIVE ElseOf(_, _, _, _)
ElseOf(lines, p, c, depth) ==
    IF p >= c THEN 0
    ELSE IF lines[p].t \in BlockLines THEN ElseOf(lines, p + 1, c, depth + 1)
    ELSE IF lines[p].t \in CloseLines THEN ElseOf(lines, p + 1, c, depth - 1)
    ELSE IF lines[p].t \in ElseLines /\ depth = 1 THEN p
    ELSE ElseOf(lines, p + 1, c, depth)

\* the last line of the command that starts at line p
EndOf(lines, p) == IF lines[p].t \in BlockLines THEN CloseOf(lines, p + 1, 1) ELSE p

OnDisk(disk, path) == path \in DOMAIN disk /\ disk[path] # "absent"

PutOnDisk(disk, path, what) ==
    [q \in (DOMAIN disk) \cup {path} |-> IF q = path THEN what ELSE disk[q]]

\* the existing directories directly inside the folder
SubDirs(disk, path) ==
    {q \in DOMAIN disk :
        OnDisk(disk, q) /\ LastSep(q) > 0 /\ Slice(q, 0, LastSep(q)) = path}

\* the path a line names: its interpolated path, %%i, or %dest_path% as read
PathOf(l, read) ==
    IF l.t \in RmdirEachLines THEN read.i
    ELSE IF l.v = <<>> THEN read.dest_path
    ELSE l.v[1]

\* the condition of the if that opens a block
Holds(l, st, read) ==
    IF l.t \in IfNotExistLines THEN ~OnDisk(st.disk, PathOf(l, read))
    ELSE IF l.t \in IfExistLines THEN OnDisk(st.disk, PathOf(l, read))
    ELSE read.errorlevel # 0

Logged(st, p, status) == [st EXCEPT !.out = Append(@, [at |-> p, status |-> status])]

\* the exit status of the command on line p: 1 when the environment makes it
\* fail (p \in fail) or when it cannot succeed on this disk
StatusOf(l, p, st, read, fail) ==
    IF p \in fail THEN 1
    ELSE IF l.t \in MkdirLines /\ OnDisk(st.disk, PathOf(l, read)) THEN 1
    ELSE IF l.t \in RmdirLines
            /\ (PathOf(l, read) \notin DOMAIN st.disk \/ st.disk[PathOf(l, read)] # "empty")
    THEN 1
    ELSE IF l.t \in RmdirTreeLines /\ ~OnDisk(st.disk, PathOf(l, read)) THEN 1
    ELSE IF l.t \in XcopyLines /\ ~OnDisk(st.disk, PathOf(l, read)) THEN 1
    ELSE IF l.t \in DelLines /\ ~OnDisk(st.disk, PathOf(l, read)) THEN 1
    ELSE 0

\* what a command that succeeded leaves on the disk
DiskAfter(l, st, read) ==
    IF l.t \in MkdirLines
    THEN LET path == PathOf(l, read)
             parent == Slice(path, 0, LastSep(path))
         IN IF LastSep(path) > 0 /\ parent \in DOMAIN st.disk
            THEN PutOnDisk(PutOnDisk(st.disk, parent, "full"), path, "empty")
            ELSE PutOnDisk(st.disk, path, "empty")
    ELSE IF l.t \in RmdirLines \cup RmdirTreeLines \cup DelLines \cup RmdirEachLines
    THEN PutOnDisk(st.disk, PathOf(l, read), "absent")
    ELSE IF l.t \in DelFilesLines /\ OnDisk(st.disk, PathOf(l, read))
    THEN PutOnDisk(st.disk, PathOf(l, read),
                   IF SubDirs(st.disk, PathOf(l, read)) = {} THEN "empty" ELSE "full")
    ELSE IF l.t \in XcopyLines THEN PutOnDisk(st.disk, read.dest_path, "full")
    ELSE st.disk

\* one line that is not part of the block structure
Do(l, p, st, read, fail) ==
    IF l.t \in LabelLines THEN st
    ELSE IF l.t \in GotoLines THEN [Logged(st, p, 0) EXCEPT !.goto = LabelOf(l.t)]
    ELSE IF l.t \in CommandLines
    THEN LET status == StatusOf(l, p, st, read, fail)
         IN [Logged(st, p, status) EXCEPT
                !.errorlevel = status,
                !.disk = IF status = 0 THEN DiskAfter(l, st, read) ELSE @]
    ELSE IF l.t = "for %%I in (\"{safe_source}\") do set \"source_name=%%~nxI\""
    THEN [Logged(st, p, 0) EXCEPT !.source_name = Basename(l.v[1])]
    ELSE IF l.t = "set \"dest_path={safe_dest}\\%source_name%\""
    THEN [Logged(st, p, 0) EXCEPT !.dest_path = l.v[1] \o <<"\\">> \o read.source_name]
    ELSE IF l.t \in IfElseLines THEN Logged(st, p, IF read.errorlevel = 0 THEN 1 ELSE 0)
    ELSE Logged(st, p, 0)

\* the lines p..q of one command, executed in order; a goto ends it
RECURSIVE RunRange(_, _, _, _, _, _)

\* the lines p..q of a for block, executed once for every directory of dirs
RECURSIVE RunEach(_, _, _, _, _, _, _)
RunEach(lines, p, q, st, read, fail, dirs) ==
    IF dirs = {} THEN st
    ELSE LET d == CHOOSE x \in dirs : TRUE
         IN RunEach(lines, p, q, RunRange(lines, p, q, st, [read EXCEPT !.i = d], fail),
                    read, fail, dirs \ {d})

RunRange(lines, p, q, st, read, fail) ==
    IF p > q \/ st.goto # "" THEN st
    ELSE IF lines[p].t \in ForDirLines
    THEN RunRange(lines, CloseOf(lines, p + 1, 1) + 1, q,
                  RunEach(lines, p + 1, CloseOf(lines, p + 1, 1) - 1, Logged(st, p, 0),
                          read, fail, SubDirs(st.disk, lines[p].v[1])),
                  read, fail)
    ELSE IF lines[p].t \in OpenLines
    THEN LET c == CloseOf(lines, p + 1, 1)
             e == ElseOf(lines, p + 1, c, 1)
             holds == Holds(lines[p], st, read)
             tested == Logged(st, p, IF holds THEN 1 ELSE 0)
             inner == IF holds
                      THEN RunRange(lines, p + 1, (IF e = 0 THEN c ELSE e) - 1,
                                    tested, read, fail)
                      ELSE IF e = 0 THEN tested
                      ELSE RunRange(lines, e + 1, c - 1, tested, read, fail)
         IN RunRange(lines, c + 1, q, inner, read, fail)
    ELSE RunRange(lines, p + 1, q, Do(lines[p], p, st, read, fail), read, fail)

LabelsIn(lines, from, to, label) ==
    {q \in from..to : lines[q].t \in LabelLines /\ LabelOf(lines[q].t) = label}

Least(S) == CHOOSE x \in S : \A y \in S : x <= y

\* a variant that always takes the first label of the file
FindLabelFromTop(lines, from, label) ==
    IF LabelsIn(lines, 1, Len(lines), label) # {}
    THEN Least(LabelsIn(lines, 1, Len(lines), label))
    ELSE Len(lines) + 1

\* goto: the label is looked for from the line after the command to the end
\* of the file, then from the first line; the script ends if there is none
FindLabel(lines, from, label) ==
    IF LabelsIn(lines, from, Len(lines), label) # {}
    THEN Least(LabelsIn(lines, from, Len(lines), label))
    ELSE IF LabelsIn(lines, 1, from - 1, label) # {}
    THEN Least(LabelsIn(lines, 1, from - 1, label))
    ELSE Len(lines) + 1

\* the interpreter is started on the script compiled from tasks
launch(tasks, disk) ==
    /\ run.state = "idle"
    /\ ~Script(tasks, <<"a", ".", "t", "x", "t">>).raised
    /\ run' = [NoRun EXCEPT !.state = "running", !.tasks = tasks,
                            !.script = Script(tasks, <<"a", ".", "t", "x", "t">>).lines,
                            !.pc = 1, !.disk = disk, !.disk0 = disk]

\* the next command is read and executed; the commands on the lines in fail
\* fail
exec_command(fail) ==
    /\ run.state = "running"
    /\ LET lines == run.script
           last == EndOf(lines, run.pc)
           st == RunRange(lines, run.pc, last, run, run, fail)
           next == IF st.goto # "" THEN FindLabel(lines, last + 1, st.goto) ELSE last + 1
       IN run' = [st EXCEPT !.goto = "", !.pc = next,
                           !.state = IF next > Len(lines) THEN "ended" ELSE "running"]

\* the tasks whose scripts are run
RunPool ==
    {Task(K_backup_folder, <<"s", "/", "d">>, <<"t">>),
     Task(K_delete_folder_if_empty, <<"s", "/", "d">>, <<>>),
     Task(K_open_url, <<"b">>, <<>>),
     Task(K_open_url, P_ftp \o <<"b">>, <<>>)}

RunTasks == UNION {[1..n -> RunPool] : n \in 0..MaxRunTasks}

\* the disks a script may find: the source folder s\d, the destination t
\* and the folder t\d inside it
Disks ==
    {[p \in {<<"s", "\\", "d">>, <<"t">>, <<"t", "\\", "d">>} |->
         IF p = <<"s", "\\", "d">> THEN a ELSE IF p = <<"t">> THEN b[1] ELSE b[2]] :
       a \in {"absent", "empty", "full"},
       b \in {<<"absent", "absent">>, <<"full", "absent">>, <<"full", "full">>}}

Launch ==
    /\ run.state = "idle"
    /\ \E tasks \in RunTasks, disk \in Disks : launch(tasks, disk)

\* the removal and close_app tasks whose scripts are run
RemovalPool ==
    {Task(K_delete_file, <<"s", "/", "d">>, <<>>),
     Task(K_delete_folder, <<"s", "/", "d">>, <<>>),
     Task(K_empty_folder, <<"t">>, <<>>),
     Task(K_delete_folder_if_empty, <<"s", "/", "d">>, <<>>),
     Task(K_close_app, <<"b">>, <<>>)}

RemovalTasks == UNION {[1..n -> RemovalPool] : n \in 0..MaxRunTasks}

LaunchRemoval ==
    /\ run.state = "idle"
    /\ \E tasks \in RemovalTasks, disk \in Disks : launch(tasks, disk)

\* (no line of a script is executed more often than the script has lines)
ExecCommand ==
    /\ run.state = "running"
    /\ Len(run.out) <= Len(run.script)
    /\ \E fail \in SUBSET {q \in run.pc..EndOf(run.script, run.pc) :
                              run.script[q].t \in CommandLines} : exec_command(fail)

\* ------------------------------------------------- File Handler calls
NoFCall ==
    [op |-> "none", tasks |-> <<>>, path |-> <<>>, text |-> <<>>, io |-> "ok",
     err |-> <<>>, rtasks |-> <<>>, rpath |-> <<>>]

\* what the user can type into the task-list editor
Keys == {"[", "]", "|", "#", "a", " ", "\n"}

type_char(c) ==
    /\ fcall.op = "none"
    /\ Len(editor) < MaxText
    /\ editor' = Append(editor, c)
    /\ UNCHANGED <<fs, fcall, fprev>>

\* parse_text_to_tasks(content) on the editor's text ("Save Changes")
parse_text_to_tasks ==
    /\ fcall.op = "none"
    /\ fcall' = [NoFCall EXCEPT !.op = "parse_text_to_tasks", !.text = editor,
                                !.rtasks = ParseText(editor)]
    /\ fprev' = fcall
    /\ UNCHANGED <<fs, editor>>

\* ------------------------------------------------- files
\* fs maps each existing path to the file's content: a text for a task
\* list, the sequence of written lines for a script.
Exists(files, p) == p \in DOMAIN files

Write(files, p, content) ==
    [q \in (DOMAIN files) \cup {p} |-> IF q = p THEN content ELSE files[q]]

\* the path save_tasks writes: '.txt' is appended unless it is there already
SavedPath(file_path) ==
    IF EndsWith(Lower(file_path), DotTxt) THEN file_path ELSE file_path \o DotTxt

SaveError == "Error saving tasks to file: "

LoadError == "Error loading tasks from file: "

BatError == "Error creating BAT file: "

\* convert_to_bat on the files given: the files after the call, the message
\* chain of the exception raised (<<>> when none) and the path returned.
\* io = "bat_fails": the script file cannot be opened for writing.
ConvertToBat(files, tasks, txt_file_path, io) ==
    LET bat_file_path == get_bat_path(txt_file_path)
        script == Script(tasks, txt_file_path)
    IN IF io = "bat_fails"
       THEN [fs |-> files, err |-> <<BatError, "OSError">>, rpath |-> <<>>]
       ELSE IF script.raised
       THEN [fs |-> Write(files, bat_file_path, script.lines),
             err |-> <<BatError, "ValueError">>, rpath |-> <<>>]
       ELSE [fs |-> Write(files, bat_file_path, script.lines),
             err |-> <<>>, rpath |-> bat_file_path]

convert_to_bat(tasks, txt_file_path, io) ==
    LET r == ConvertToBat(fs, tasks, txt_file_path, io)
    IN /\ fs' = r.fs
       /\ fcall' = [NoFCall EXCEPT !.op = "convert_to_bat", !.tasks = tasks,
                                   !.path = txt_file_path, !.io = io,
                                   !.err = r.err, !.rpath = r.rpath]
       /\ fprev' = fcall
       /\ UNCHANGED editor

\* save_tasks(tasks, file_path) at clock reading stamp.
\* io = "txt_fails": the text file cannot be opened for writing.
\* save_tasks on the files given: the files after the call, the text written,
\* the message chain of the exception raised and the path returned
SaveOutcome(files, tasks, file_path, stamp, io) ==
    LET path == SavedPath(file_path)
        text == SaveText(tasks, stamp)
        r == ConvertToBat(Write(files, path, text), tasks, path, io)
    IN [fs |-> IF io = "txt_fails" THEN files ELSE r.fs,
        text |-> IF io = "txt_fails" THEN <<>> ELSE text,
        err |-> IF io = "txt_fails" THEN <<SaveError, "OSError">>
                ELSE IF r.err # <<>> THEN <<SaveError>> \o r.err
                ELSE <<>>,
        rpath |-> IF io = "txt_fails" \/ r.err # <<>> THEN <<>> ELSE path]

save_tasks(tasks, file_path, stamp, io) ==
    LET r == SaveOutcome(fs, tasks, file_path, stamp, io)
    IN /\ fs' = r.fs
       /\ fcall' = [NoFCall EXCEPT
                       !.op = "save_tasks", !.tasks = tasks, !.path = file_path,
                       !.io = io, !.text = r.text, !.err = r.err, !.rpath = r.rpath]
       /\ fprev' = fcall
       /\ UNCHANGED editor

\* load_tasks(file_path).  io = "read_fails": the file exists but cannot be read.
load_tasks(file_path, io) ==
    /\ fcall' = IF ~Exists(fs, file_path)
                THEN [NoFCall EXCEPT !.op = "load_tasks", !.path = file_path, !.io = io,
                                     !.err = <<LoadError, "File not found: ">>]
                ELSE IF io = "read_fails"
                THEN [NoFCall EXCEPT !.op = "load_tasks", !.path = file_path, !.io = io,
                                     !.err = <<LoadError, "OSError">>]
                ELSE [NoFCall EXCEPT !.op = "load_tasks", !.path = file_path, !.io = io,
                                     !.text = fs[file_path],
                                     !.rtasks = ParseText(fs[file_path])]
    /\ fprev' = fcall
    /\ UNCHANGED <<fs, editor>>

\* ------------------------------------------------- the application window
\* current_file_path: <<>> is None; action: the last menu action; before: the
\* stored tasks when it began; raised: the message chain of the exception it
\* caught; shown: the title of the message box it showed; launched: the
\* script handed to the task executor; uncaught: the exception that left the
\* handler; steps: the menu actions so far, closing the window apart;
\* last_save_time: <<>> is None, <<t>> the number t; clock: the last value
\* time.time() returned; prompted: the action asked about unsaved changes;
\* response: the answer it got; destroyed: the main window is gone; changed:
\* the last of the adds, deletes and moves that changed the store ("edit")
\* and the saves ("saved") and loads ("loaded") that completed.
NoGui ==
    [current_file_path |-> <<>>, action |-> "none", before |-> <<>>, raised |-> <<>>,
     shown |-> "", launched |-> <<>>, uncaught |-> "", steps |-> 0,
     last_save_time |-> <<0>>, last_modification_time |-> 0, clock |-> 0,
     prompted |-> FALSE, response |-> "", destroyed |-> FALSE, changed |-> "none"]

\* the menu action begins
Begun(action) ==
    [gui EXCEPT !.action = action, !.before = Tasks, !.raised = <<>>, !.shown = "",
                !.launched = <<>>, !.uncaught = "", !.prompted = FALSE, !.response = "",
                !.steps = IF action = "exit" THEN @ ELSE @ + 1]

\* self.last_save_time = time.time(); the clock is strictly increasing
SaveTimed(g) ==
    [g EXCEPT !.last_save_time = <<g.clock + 1>>, !.clock = g.clock + 1, !.changed = "saved"]

\* self.last_save_time = time.time(); self.last_modification_time =
\* self.last_save_time
LoadTimed(g) ==
    [g EXCEPT !.last_save_time = <<g.clock + 1>>, !.last_modification_time = g.clock + 1,
              !.clock = g.clock + 1, !.changed = "loaded"]

\* self.last_modification_time = time.time()
_update_modification_time(g) ==
    [g EXCEPT !.last_modification_time = g.clock + 1, !.clock = g.clock + 1]

\* a variant that marks a change whatever the store returned
ModifiedAlways(result, g) == _update_modification_time(g)

\* if result: self._update_modification_time()
Modified(result, g) == IF result = "True" THEN _update_modification_time(g) ELSE g

\* a variant that also counts a change made at the very time of the save
LaterOrSame(mod_time, save_time) == mod_time >= save_time

\* mod_time > self.last_save_time
Later(mod_time, save_time) == mod_time > save_time

\* _have_unsaved_changes with n tasks stored
_have_unsaved_changes(g, n) ==
    IF g.current_file_path = <<>> /\ n > 0 THEN TRUE
    ELSE IF g.last_save_time # <<>>
    THEN Later(g.last_modification_time, g.last_save_time[1])
    ELSE FALSE

\* exit_application goes on to self.master.destroy() when save_task_list
\* has returned
Returned(action, g) ==
    IF action = "exit"
    THEN [g EXCEPT !.prompted = TRUE, !.response = "yes", !.destroyed = TRUE]
    ELSE g

\* self.task_manager.set_tasks(tasks) with a list the action built itself
SetStore(values) ==
    /\ _tasks' = [k \in 1..Len(values) |-> k]
    /\ heap' = [k \in 1..Len(values) |-> values[k]]
    /\ held' = <<>>

\* a variant that replaces the stored tasks before it knows the load worked
StoreAfterOpenAlways(err, loaded, before) == loaded

\* open_task_list calls set_tasks only after load_tasks has returned
StoreAfterOpen(err, loaded, before) == IF err = <<>> THEN loaded ELSE before

\* open_task_list; file_path = <<>>: the dialog was cancelled
open_task_list(file_path, io) ==
    IF file_path = <<>>
    THEN /\ gui' = Begun("open")
         /\ UNCHANGED <<_tasks, heap, held, fileVars>>
    ELSE /\ load_tasks(file_path, io)
         /\ SetStore(StoreAfterOpen(fcall'.err, fcall'.rtasks, Tasks))
         /\ gui' = IF fcall'.err = <<>>
                   THEN LoadTimed([Begun("open") EXCEPT !.current_file_path = file_path])
                   ELSE [Begun("open") EXCEPT !.raised = fcall'.err,
                                              !.shown = "Error Opening File"]

\* what the try block has done when save_tasks raised
SaveRaised(saved, tasks, file_path, io) ==
    [fs |-> saved.fs, err |-> saved.err, bat_file |-> <<>>,
     last |-> [NoFCall EXCEPT !.op = "save_tasks", !.tasks = tasks, !.path = file_path,
                              !.io = io, !.text = saved.text, !.err = saved.err]]

\* what the try block has done when save_tasks returned and convert_to_bat
\* raised or returned
CompileDone(compiled, tasks, file_path, io) ==
    [fs |-> compiled.fs, err |-> compiled.err, bat_file |-> compiled.rpath,
     last |-> [NoFCall EXCEPT !.op = "convert_to_bat", !.tasks = tasks, !.path = file_path,
                              !.io = io, !.err = compiled.err, !.rpath = compiled.rpath]]

SaveDone(saved, tasks, file_path, io) ==
    IF saved.err # <<>>
    THEN SaveRaised(saved, tasks, file_path, io)
    ELSE CompileDone(ConvertToBat(saved.fs, tasks, file_path,
                                  IF io = "bat_fails_later" THEN "bat_fails" ELSE "ok"),
                     tasks, file_path, io)

\* tasks = get_tasks(); save_tasks(tasks, file_path); convert_to_bat(tasks,
\* file_path): the files after both calls, the exception raised by the first
\* that raises, the script path returned.  io = "bat_fails_later": the script
\* file cannot be opened in the second call.
SaveAndCompile(files, tasks, file_path, stamp, io) ==
    SaveDone(SaveOutcome(files, tasks, file_path, stamp,
                         IF io = "bat_fails_later" THEN "ok" ELSE io),
             tasks, file_path, io)

\* the end of the try block shared by save_task_list and save_task_list_as
Saved(action, file_path, r) ==
    /\ fs' = r.fs
    /\ fcall' = r.last
    /\ fprev' = fcall
    /\ UNCHANGED <<editor, _tasks, heap, held>>
    /\ gui' = Returned(action,
                 IF r.err = <<>>
                 THEN SaveTimed([Begun(action) EXCEPT !.current_file_path = file_path])
                 ELSE [Begun(action) EXCEPT !.raised = r.err, !.shown = "Error Saving File"])

SavedFrom(action, file_path, stamp, io) ==
    Saved(action, file_path, SaveAndCompile(fs, Tasks, file_path, stamp, io))

\* save_task_list_as; file_path = <<>>: the dialog was cancelled
save_task_list_as(action, file_path, stamp, io) ==
    IF Len(_tasks) = 0
    THEN /\ gui' = Returned(action, [Begun(action) EXCEPT !.shown = "No Tasks"])
         /\ UNCHANGED <<_tasks, heap, held, fileVars>>
    ELSE IF file_path = <<>>
    THEN /\ gui' = Returned(action, Begun(action))
         /\ UNCHANGED <<_tasks, heap, held, fileVars>>
    ELSE SavedFrom(action, file_path, stamp, io)

\* save_task_list, called by the menu ("save") or by exit_application
\* ("exit"); file_path: what the dialog returns if it is shown
save_task_list(action, file_path, stamp, io) ==
    IF gui.current_file_path = <<>>
    THEN save_task_list_as(action, file_path, stamp, io)
    ELSE SavedFrom(action, gui.current_file_path, stamp, io)

\* exit_application; response: the answer to the unsaved-changes prompt if
\* it is shown ("yes", "no", "cancel")
exit_application(response, file_path, stamp, io) ==
    IF ~(Len(_tasks) > 0
         /\ (gui.current_file_path = <<>> \/ _have_unsaved_changes(gui, Len(_tasks))))
    THEN /\ gui' = [Begun("exit") EXCEPT !.destroyed = TRUE]
         /\ UNCHANGED <<_tasks, heap, held, fileVars>>
    ELSE IF response = "cancel"
    THEN /\ gui' = [Begun("exit") EXCEPT !.prompted = TRUE, !.response = "cancel"]
         /\ UNCHANGED <<_tasks, heap, held, fileVars>>
    ELSE IF response = "no"
    THEN /\ gui' = [Begun("exit") EXCEPT !.prompted = TRUE, !.response = "no",
                                          !.destroyed = TRUE]
         /\ UNCHANGED <<_tasks, heap, held, fileVars>>
    ELSE save_task_list("exit", file_path, stamp, io)

\* new_task_list; confirm: the answer to "This will clear the current task
\* list. Continue?" if it is asked
new_task_list(confirm) ==
    IF Len(_tasks) > 0 /\ ~confirm
    THEN /\ gui' = Begun("new")
         /\ UNCHANGED <<_tasks, heap, held, fileVars>>
    ELSE /\ SetStore(<<>>)
         /\ gui' = [_update_modification_time(Begun("new")) EXCEPT
                        !.current_file_path = <<>>, !.last_save_time = <<>>]
         /\ UNCHANGED fileVars

\* an add_..._task handler whose dialog was not cancelled:
\* self.task_manager.add_task(...); self._update_modification_time()
Gui_add_task(task_type, details, additional) ==
    /\ add_task(task_type, details, additional)
    /\ gui' = [_update_modification_time(gui) EXCEPT !.changed = "edit"]

\* what delete_task and move_task of the window do with the store's answer
Answered(action, result, title) ==
    gui' = IF result = "True"
           THEN [Modified(result, Begun(action)) EXCEPT !.changed = "edit"]
           ELSE [Modified(result, Begun(action)) EXCEPT !.shown = title]

\* delete_task of the window with the index it worked out
Gui_delete_task(task_idx) ==
    IF Len(_tasks) = 0
    THEN /\ gui' = [Begun("delete") EXCEPT !.shown = "No Tasks"]
         /\ UNCHANGED <<_tasks, heap, held, call>>
    ELSE /\ delete_task(task_idx)
         /\ Answered("delete", call'.ret, "Error")

\* move_task of the window with the index it worked out
Gui_move_task(direction, task_idx) ==
    IF Len(_tasks) = 0
    THEN /\ gui' = [Begun("move") EXCEPT !.shown = "No Tasks"]
         /\ UNCHANGED <<_tasks, heap, held, call>>
    ELSE /\ IF direction = "up" THEN move_task_up(task_idx) ELSE move_task_down(task_idx)
         /\ Answered("move", call'.ret, "Cannot Move")

\* self.task_executor.run_bat_file(bat_path) with the files as they are after
\* the save (io = "launch_fails": Popen raises); then the handler reaches
\* ttk.Button(button_frame, ...), where button_frame is not a name of this
\* scope
Executed(g, files, io) ==
    LET bat_path == get_bat_path(g.current_file_path)
    IN IF ~Exists(files, bat_path)
       THEN [g EXCEPT !.raised = <<"BAT file not found: ">>, !.shown = "Error Running Tasks",
                      !.uncaught = "NameError"]
       ELSE IF io = "launch_fails"
       THEN [g EXCEPT !.raised = <<"Error executing BAT file: ", "OSError">>,
                      !.shown = "Error Running Tasks", !.uncaught = "NameError"]
       ELSE [g EXCEPT !.launched = bat_path, !.uncaught = "NameError"]

\* a variant that goes on to the launch when the save has failed
Ran_tasksAnyway(path, r, io) ==
    /\ fs' = r.fs
    /\ fcall' = r.last
    /\ fprev' = fcall
    /\ UNCHANGED <<editor, _tasks, heap, held>>
    /\ gui' = Executed(SaveTimed([Begun("run") EXCEPT !.current_file_path = path]), r.fs, io)

\* run_tasks after the save: r is what the save did
Ran_tasks(path, r, io) ==
    /\ fs' = r.fs
    /\ fcall' = r.last
    /\ fprev' = fcall
    /\ UNCHANGED <<editor, _tasks, heap, held>>
    /\ gui' = IF r.err = <<>>
              THEN Executed(SaveTimed([Begun("run") EXCEPT !.current_file_path = path]),
                            r.fs, io)
              ELSE [Begun("run") EXCEPT !.raised = r.err, !.shown = "Error Saving File"]

\* the path run_tasks saves to; file_path: what the dialog returns if it is
\* shown
RunPath(file_path) ==
    IF gui.current_file_path # <<>> THEN gui.current_file_path ELSE file_path

run_tasks(file_path, stamp, io) ==
    IF Len(_tasks) = 0
    THEN /\ gui' = [Begun("run") EXCEPT !.shown = "No Tasks"]
         /\ UNCHANGED <<_tasks, heap, held, fileVars>>
    ELSE IF RunPath(file_path) = <<>>
    THEN /\ gui' = Begun("run")
         /\ UNCHANGED <<_tasks, heap, held, fileVars>>
    ELSE Ran_tasks(RunPath(file_path),
                   SaveAndCompile(fs, Tasks, RunPath(file_path), stamp,
                                  IF io = "launch_fails" THEN "ok" ELSE io),
                   io)

\* the arguments the File Handler is called with
FilePool ==
    {Task(K_delay, <<"3">>, <<>>),
     Task(K_delay, <<"x">>, <<>>),
     Task(K_delay, <<" ", "-", "1", "_", "0">>, <<>>),
     Task(K_shutdown, <<"x">>, <<>>),
     Task(K_zz, <<"b">>, <<"c">>),
     Task(K_zz, <<"b">>, <<>>),
     Task(<<"D", "e", "l", "a", "y">>, <<"x">>, <<>>),
     Task(K_zz, <<"\n", "[", "]", "|">>, <<>>),
     Task(<<>>, <<>>, <<>>),
     Task(K_open_url, <<"b">>, <<>>),
     Task(K_close_app, <<"b">>, <<>>),
     Task(K_backup_folder, <<"s", "/", "d">>, <<"t">>)}

FileTasks == UNION {[1..n -> FilePool] : n \in 0..MaxFileTasks}

FilePaths == {<<"a">>, <<"d", "/", "B", ".", "T", "X", "T">>}

LoadPaths == FilePaths \cup {SavedPath(p) : p \in FilePaths}

Stamps == {Stamp1, Stamp2}

\* the tasks the user adds in the window, the paths the dialogs return and
\* the ways the disk can fail
GuiPool == {Task(K_delay, <<"x">>, <<>>), Task(K_zz, <<"b">>, <<"c">>)}

SavePaths == {<<>>, <<"a">>}

OpenPaths == {<<>>, <<"a">>, <<"a", ".", "t", "x", "t">>}

GuiAddTask ==
    /\ ~gui.destroyed
    /\ \E t \in GuiPool : Gui_add_task(t.type, t.details, t.additional)
    /\ UNCHANGED <<pre, prev, prepre, fileVars, run>>

GuiDeleteTask ==
    /\ gui.steps < MaxGuiSteps /\ ~gui.destroyed
    /\ \E i \in 0..MaxTasks : Gui_delete_task(i)
    /\ UNCHANGED <<pre, prev, prepre, fileVars, run>>

GuiMoveTask ==
    /\ gui.steps < MaxGuiSteps /\ ~gui.destroyed
    /\ \E d \in {"up", "down"}, i \in 0..MaxTasks : Gui_move_task(d, i)
    /\ UNCHANGED <<pre, prev, prepre, fileVars, run>>

NewTaskList ==
    /\ gui.steps < MaxGuiSteps /\ ~gui.destroyed
    /\ \E confirm \in BOOLEAN : new_task_list(confirm)
    /\ UNCHANGED <<call, pre, prev, prepre, run>>

ExitApplication ==
    /\ ~gui.destroyed
    /\ \E response \in {"yes", "no", "cancel"}, p \in SavePaths,
          io \in {"ok", "txt_fails", "bat_fails", "bat_fails_later"} :
          exit_application(response, p, Stamp1, io)
    /\ UNCHANGED <<call, pre, prev, prepre, run>>

OpenTaskList ==
    /\ gui.steps < MaxGuiSteps /\ ~gui.destroyed
    /\ \E p \in OpenPaths, io \in {"ok", "read_fails"} : open_task_list(p, io)
    /\ UNCHANGED <<call, pre, prev, prepre, run>>

SaveTaskList ==
    /\ gui.steps < MaxGuiSteps /\ ~gui.destroyed
    /\ \E p \in SavePaths, io \in {"ok", "txt_fails", "bat_fails", "bat_fails_later"} :
          save_task_list("save", p, Stamp1, io)
    /\ UNCHANGED <<call, pre, prev, prepre, run>>

SaveTaskListAs ==
    /\ gui.steps < MaxGuiSteps /\ ~gui.destroyed
    /\ \E p \in SavePaths, io \in {"ok", "txt_fails", "bat_fails", "bat_fails_later"} :
          save_task_list_as("save_as", p, Stamp1, io)
    /\ UNCHANGED <<call, pre, prev, prepre, run>>

RunTasksMenu ==
    /\ gui.steps < MaxGuiSteps /\ ~gui.destroyed
    /\ \E p \in SavePaths,
          io \in {"ok", "txt_fails", "bat_fails", "bat_fails_later", "launch_fails"} :
          run_tasks(p, Stamp1, io)
    /\ UNCHANGED <<call, pre, prev, prepre, run>>

\* a run makes one save or conversion, then one load
SaveTasks ==
    /\ fcall.op = "none"
    /\ \E tasks \in FileTasks, p \in FilePaths, stamp \in Stamps,
       io \in {"ok", "txt_fails", "bat_fails"} : save_tasks(tasks, p, stamp, io)

ConvertToBatCall ==
    /\ fcall.op = "none"
    /\ \E tasks \in FileTasks, p \in LoadPaths, io \in {"ok", "bat_fails"} :
        convert_to_bat(tasks, p, io)

\* the tasks that name a path, and the paths they name
PathValues == {<<"s", "/", "d">>, <<"/", "s", "\\", "/">>}

PathPool ==
    {Task(t, d, <<>>) :
        t \in {K_screenshot, K_delete_file, K_delete_folder, K_empty_folder,
               K_delete_folder_if_empty, K_open_app, K_open_file},
        d \in PathValues}
        \cup {Task(K_backup_folder, d, a) : d \in PathValues, a \in PathValues \cup {<<"t">>}}

PathTasks == UNION {[1..n -> PathPool] : n \in 0..MaxFileTasks}

ConvertPaths ==
    /\ fcall.op = "none"
    /\ \E tasks \in PathTasks : convert_to_bat(tasks, <<"a", ".", "t", "x", "t">>, "ok")

LoadTasks ==
    /\ fcall.op # "load_tasks"
    /\ \E p \in LoadPaths, io \in {"ok", "read_fails"} : load_tasks(p, io)

TypeChar == \E c \in Keys : type_char(c)

AddTask == \E t \in StoreTypes, d \in StoreDetails, a \in StoreAdditional : add_task(t, d, a)

DeleteTask == \E i \in Indexes : delete_task(i)

MoveTaskUp == \E i \in Indexes : move_task_up(i)

MoveTaskDown == \E i \in Indexes : move_task_down(i)

CallerAppend ==
    \E t \in StoreTypes, d \in StoreDetails, a \in StoreAdditional : caller_append(t, d, a)

CallerRemove == \E j \in 0..MaxTasks : caller_remove(j)

CallerSwap == \E j \in 0..MaxTasks : caller_swap(j)

CallerSetField == \E j \in 0..MaxTasks, t \in StoreTypes : caller_set_field(j, t)

StoreTaskVals == {Task(t, d, a) : t \in StoreTypes, d \in StoreDetails, a \in StoreAdditional}

Init ==
    /\ _tasks = <<>>
    /\ heap = <<>>
    /\ held = <<>>
    /\ call = NoCall
    /\ pre = <<>>
    /\ prev = NoCall
    /\ prepre = <<>>
    /\ fs = <<>>
    /\ editor = <<>>
    /\ fcall = NoFCall
    /\ fprev = NoFCall
    /\ run = NoRun
    /\ gui = NoGui

\* only the last call is remembered
LastCallOnly == UNCHANGED <<pre, prev, prepre>> /\ UNCHANGED <<fileVars, run, gui>>

Next ==
    \/ LastCallOnly /\ AddTask
    \/ LastCallOnly /\ get_tasks
    \/ LastCallOnly /\ set_tasks
    \/ LastCallOnly /\ DeleteTask
    \/ LastCallOnly /\ MoveTaskUp
    \/ LastCallOnly /\ MoveTaskDown
    \/ LastCallOnly /\ clear_tasks
    \/ LastCallOnly /\ has_tasks
    \/ LastCallOnly /\ CallerAppend
    \/ LastCallOnly /\ CallerRemove
    \/ LastCallOnly /\ CallerSwap
    \/ LastCallOnly /\ CallerSetField

\* The Task Store under any sequence of calls, with a caller that keeps and
\* mutates the list it was given.
Spec == Init /\ [][Next]_vars

\* Two consecutive calls on any store: pre / prepre are the stored records
\* before the last call and before the one before it, prev is the call before
\* the last.
InitPair ==
    /\ \E n \in 0..MaxTasks :
          /\ _tasks = [k \in 1..n |-> k]
          /\ heap \in [1..n -> StoreTaskVals]
    /\ held = <<>>
    /\ call = NoCall
    /\ pre = <<>>
    /\ prev = NoCall
    /\ prepre = <<>>
    /\ fs = <<>>
    /\ editor = <<>>
    /\ fcall = NoFCall
    /\ fprev = NoFCall
    /\ run = NoRun
    /\ gui = NoGui

LastTwoCalls ==
    /\ prev.op = "none"
    /\ pre' = Tasks
    /\ prev' = call
    /\ prepre' = pre
    /\ UNCHANGED <<fileVars, run, gui>>

\* The text editor: the user types a text, then it is parsed.
NextParse ==
    \/ TypeChar /\ UNCHANGED <<storeVars, run, gui>>
    \/ parse_text_to_tasks /\ UNCHANGED <<storeVars, run, gui>>

SpecParse == Init /\ [][NextParse]_vars

\* The File Handler: a save or a conversion, then a load.
NextFile ==
    \/ SaveTasks /\ UNCHANGED <<storeVars, run, gui>>
    \/ ConvertToBatCall /\ UNCHANGED <<storeVars, run, gui>>
    \/ LoadTasks /\ UNCHANGED <<storeVars, run, gui>>

SpecFile == Init /\ [][NextFile]_vars

\* Task lists that name paths are compiled.
NextPaths == ConvertPaths /\ UNCHANGED <<storeVars, run, gui>>

SpecPaths == Init /\ [][NextPaths]_vars

\* A compiled script is run from its first line to its end.
NextRun ==
    \/ Launch /\ UNCHANGED <<storeVars, fileVars, gui>>
    \/ ExecCommand /\ UNCHANGED <<storeVars, fileVars, gui>>

SpecRun == Init /\ [][NextRun]_vars

NextRemoval ==
    \/ LaunchRemoval /\ UNCHANGED <<storeVars, fileVars, gui>>
    \/ ExecCommand /\ UNCHANGED <<storeVars, fileVars, gui>>

SpecRemoval == Init /\ [][NextRemoval]_vars

\* The interpreter does not stop between two commands, and every command it
\* starts returns.
SpecRunFair == SpecRun /\ WF_vars(ExecCommand /\ UNCHANGED <<storeVars, fileVars, gui>>)

\* the user adds tasks and uses the File and Run menus
NextGui ==
    \/ GuiAddTask
    \/ GuiDeleteTask
    \/ GuiMoveTask
    \/ NewTaskList
    \/ ExitApplication
    \/ OpenTaskList
    \/ SaveTaskList
    \/ SaveTaskListAs
    \/ RunTasksMenu

SpecGui == Init /\ [][NextGui]_vars

NextPair ==
    \/ LastTwoCalls /\ AddTask
    \/ LastTwoCalls /\ get_tasks
    \/ LastTwoCalls /\ set_tasks
    \/ LastTwoCalls /\ DeleteTask
    \/ LastTwoCalls /\ MoveTaskUp
    \/ LastTwoCalls /\ MoveTaskDown
    \/ LastTwoCalls /\ clear_tasks
    \/ LastTwoCalls /\ has_tasks

SpecPair == InitPair /\ [][NextPair]_vars

\* ------------------------------------------------------------------ claims

\* a field value free of '[', ']', '|', line breaks and surrounding whitespace
CleanField(x) ==
    /\ \A k \in 1..Len(x) : x[k] \notin {"[", "]", "|", "\n", "\r"}
    /\ Strip(x) = x

CleanTasks(tasks) ==
    \A k \in 1..Len(tasks) :
        CleanField(tasks[k].type) /\ CleanField(tasks[k].details)
            /\ CleanField(tasks[k].additional)

\* the last call loaded the text that the call before it saved
LoadedWhatWasSaved ==
    /\ fcall.op = "load_tasks" /\ fcall.err = <<>>
    /\ fprev.op = "save_tasks" /\ fprev.io # "txt_fails"
    /\ fcall.path = SavedPath(fprev.path)
    /\ fcall.text = fprev.text

\* C1: round trip: for every task sequence T whose fields contain none of
\* '[', ']', '|', no line break and no surrounding whitespace, parsing the
\* text that save_tasks wrote for T returns T.
C1_RoundTrip ==
    (LoadedWhatWasSaved /\ CleanTasks(fprev.tasks)) => fcall.rtasks = fprev.tasks

TypesOf(tasks) == [k \in 1..Len(tasks) |-> tasks[k].type]

CleanTypes(tasks) == \A k \in 1..Len(tasks) : CleanField(tasks[k].type)

\* no details and no additional value holds a line break
OneLineEach(tasks) ==
    \A k \in 1..Len(tasks) :
        \A x \in {tasks[k].details, tasks[k].additional} :
            \A n \in 1..Len(x) : x[n] \notin {"\n", "\r"}

\* C11 as claimed: for every task sequence T whose type values are free of
\* '[', ']', '|', line breaks and surrounding whitespace, parsing the text
\* save_tasks wrote yields len(T) tasks with T's types in T's order.
C11_TypesSurvive ==
    (LoadedWhatWasSaved /\ CleanTypes(fprev.tasks)) =>
        TypesOf(fcall.rtasks) = TypesOf(fprev.tasks)

\* C11 amended: the same, for task sequences whose details and additional
\* values hold no line break either.
C11_TypesSurviveOneLine ==
    (LoadedWhatWasSaved /\ CleanTypes(fprev.tasks) /\ OneLineEach(fprev.tasks)) =>
        TypesOf(fcall.rtasks) = TypesOf(fprev.tasks)

\* a recognized and an unrecognized type were saved and loaded back
C11_Witness ==
    /\ LoadedWhatWasSaved
    /\ TypesOf(fprev.tasks) = <<K_backup_folder, K_zz>>
    /\ OneLineEach(fprev.tasks)
    /\ TypesOf(fcall.rtasks) = <<K_backup_folder, K_zz>>

\* `[kind] primary`, then ` | secondary` only when secondary is not empty
ClaimedLine(task) ==
    <<"[">> \o task.type \o <<"]", " ">> \o task.details
        \o (IF task.additional # <<>> THEN <<" ", "|", " ">> \o task.additional ELSE <<>>)
        \o <<"\n">>

ClaimedLines(tasks) ==
    LET F[k \in 0..Len(tasks)] ==
            IF k = 0 THEN <<>> ELSE F[k - 1] \o ClaimedLine(tasks[k])
    IN F[Len(tasks)]

\* C12: the text written by save_tasks is three comment lines (marker,
\* generation timestamp, format description), one blank line, then one line
\* per task in sequence order, each `[kind] primary` followed by
\* ` | secondary` only when secondary is not empty.
C12_SavedText ==
    (fcall.op = "save_tasks" /\ fcall.io # "txt_fails") =>
        /\ Exists(fs, SavedPath(fcall.path))
        /\ \E stamp \in Stamps :
              fs[SavedPath(fcall.path)] =
                  HeaderMarker \o HeaderGenerated \o stamp \o <<"\n">> \o HeaderFormat
                      \o ClaimedLines(fcall.tasks)

\* the last call compiled its task sequence without raising
Compiled ==
    /\ fcall.op \in {"convert_to_bat", "save_tasks"}
    /\ fcall.err = <<>>

\* the script that call wrote
LastScript ==
    fs[get_bat_path(IF fcall.op = "save_tasks" THEN SavedPath(fcall.path) ELSE fcall.path)]

\* the positions of the REM announcements in a script, ascending
RemAt(lines) ==
    SelectSeq([p \in 1..Len(lines) |-> p],
              LAMBDA p : lines[p].t = "REM Task {i}: {task_type}")

\* C13: a script that compiled is the header block followed by one block per
\* task in sequence order, numbered 1..n; each block starts with its REM and
\* echo announcement naming number and type, and everything between that
\* announcement and the next one (or the closing lines) is the code of that
\* very task.
C13_Blocks ==
    Compiled =>
        LET lines == LastScript
            at == RemAt(lines)
            n == Len(fcall.tasks)
            stop(k) == IF k = n THEN Len(lines) - 1 ELSE at[k + 1]
        IN /\ Len(at) = n
           /\ Len(lines) >= 8
           /\ SubSeq(lines, 1, 2) =
                  <<Ln("@echo off", 0, <<>>),
                    Ln("echo AutoSpark Application - Task Execution", 0, <<>>)>>
           /\ n > 0 => at[1] = 7
           /\ \A k \in 1..n :
                 /\ lines[at[k]] = Ln("REM Task {i}: {task_type}", k, <<fcall.tasks[k].type>>)
                 /\ lines[at[k] + 1] =
                        Ln("echo Executing Task {i}: {task_type}", k, <<fcall.tasks[k].type>>)
                 /\ SubSeq(lines, at[k] + 2, stop(k) - 1) =
                        KindCode(fcall.tasks[k]) \o TaskEnd

\* a script of two blocks was written: a backup, then a task of unknown type
C13_Witness ==
    /\ Compiled
    /\ TypesOf(fcall.tasks) = <<K_backup_folder, K_zz>>
    /\ Len(RemAt(LastScript)) = 2

\* C14: every script returned successfully, also the one for an empty task
\* sequence, ends with the message "All tasks completed." immediately followed
\* by a pause, and nothing comes after the pause.
C14_Ending ==
    Compiled =>
        /\ Len(LastScript) >= 2
        /\ LastScript[Len(LastScript) - 1] = Ln("echo All tasks completed.", 0, <<>>)
        /\ LastScript[Len(LastScript)] = Ln("pause", 0, <<>>)

\* the script of the empty task sequence: the six header lines, then the
\* completion message and the pause
C14_Witness ==
    /\ Compiled
    /\ fcall.tasks = <<>>
    /\ Len(LastScript) = 8
    /\ LastScript[8].t = "pause"

\* the recognized kinds
Recognized ==
    {K_open_url, K_open_app, K_open_file, K_close_app, K_run_command, K_delay,
     K_shutdown, K_restart, K_sleep, K_screenshot, K_clean_temp, K_security_scan,
     K_delete_file, K_empty_folder, K_delete_folder, K_delete_folder_if_empty,
     K_backup_folder}

\* the lines of block k of the running script: from its REM announcement to
\* the line before the next one (or before the two closing lines)
BlockOf(k) ==
    LET at == RemAt(run.script)
    IN at[k]..((IF k = Len(at) THEN Len(run.script) - 1 ELSE at[k + 1]) - 1)

\* the lines of block k written by format string t
LinesIn(k, t) == {p \in BlockOf(k) : run.script[p].t = t}

\* line p has been executed
Ran(p) == \E j \in 1..Len(run.out) : run.out[j].at = p

\* line p has been executed with this status
RanWith(p, status) ==
    \E j \in 1..Len(run.out) : run.out[j].at = p /\ run.out[j].status = status

\* the command that starts after the one at line p has been executed
Passed(p) ==
    \/ run.state = "ended"
    \/ \E j \in 1..Len(run.out) : run.out[j].at > EndOf(run.script, p)

ClaimedUrl(details) ==
    IF \E scheme \in {P_http, P_https, P_ftp, P_file} :
           /\ Len(details) >= Len(scheme)
           /\ SubSeq(details, 1, Len(scheme)) = scheme
    THEN details
    ELSE <<"h", "t", "t", "p", "s", ":", "/", "/">> \o details

\* C16: in the block of an open_url task the launch instruction, the failure
\* message and the success message all carry the same URL: the details
\* unchanged when they start with http://, https://, ftp:// or file://,
\* "https://" + details otherwise; and once the status test after the launch
\* has run, exactly one of the two messages has been printed: the failure
\* message when the launch command's status was not 0, else the success one.
C16_OpenUrl ==
    run.state # "idle" =>
        \A k \in 1..Len(run.tasks) :
            run.tasks[k].type = K_open_url =>
                LET url == ClaimedUrl(run.tasks[k].details)
                    starts == LinesIn(k, "start \"\" \"{url}\"")
                    fails == LinesIn(k, "    echo URL: {url}")
                    succeeds == LinesIn(k, "    echo Successfully opened URL: {url}")
                IN /\ Cardinality(starts) = 1
                   /\ Cardinality(fails) = 1
                   /\ Cardinality(succeeds) = 1
                   /\ \A p \in starts \cup fails \cup succeeds : run.script[p].v = <<url>>
                   /\ \A p \in starts, f \in fails, g \in succeeds :
                         /\ p < f /\ f < g
                         /\ run.script[f - 1].t = "    echo ERROR: Failed to open URL."
                         /\ (Ran(f) \/ Ran(g)) => Ran(p)
                         /\ (Ran(p) /\ Passed(p + 1)) =>
                               /\ Ran(f) # Ran(g)
                               /\ Ran(f) <=> RanWith(p, 1)
                               /\ Ran(f - 1) <=> Ran(f)

\* the launch of https://b failed and the failure message was printed; the
\* launch of ftp://b succeeded and the success message was printed
C16_Witness ==
    /\ run.state = "ended"
    /\ run.tasks = <<Task(K_open_url, <<"b">>, <<>>),
                     Task(K_open_url, <<"f", "t", "p", ":", "/", "/", "b">>, <<>>)>>
    /\ \E p \in LinesIn(1, "start \"\" \"{url}\"") :
          RanWith(p, 1) /\ run.script[p].v = <<<<"h", "t", "t", "p", "s", ":", "/", "/", "b">>>>
    /\ \E f \in LinesIn(1, "    echo URL: {url}") : Ran(f)
    /\ \E p \in LinesIn(2, "start \"\" \"{url}\"") : RanWith(p, 0)
    /\ \E g \in LinesIn(2, "    echo Successfully opened URL: {url}") :
          Ran(g) /\ run.script[g].v = <<<<"f", "t", "p", ":", "/", "/", "b">>>>

\* the path as the claims expect it in the script
ClaimedPath(details) ==
    [n \in 1..Len(details) |-> IF details[n] = "/" THEN "\\" ELSE details[n]]

\* the removal instructions of block k
RemovalsIn(k) ==
    {p \in BlockOf(k) :
        run.script[p].t \in {"  del /F /Q \"{safe_path}\"",
                             "    rmdir /s /q \"%%i\" >nul 2>&1",
                             "  del /f /q \"{safe_path}\\*\" >nul 2>&1",
                             "  rmdir /s /q \"{safe_path}\"",
                             "  rmdir /q \"{safe_path}\""}}

\* the 'not found' warnings of block k
NotFoundIn(k) ==
    LinesIn(k, "  echo WARNING: File not found: {safe_path}")
        \cup LinesIn(k, "  echo WARNING: Folder not found: {safe_path}")

\* C21: in the block of a delete_file, delete_folder, empty_folder or
\* delete_folder_if_empty task there is one existence check of the target,
\* every removal instruction of the block lies in the branch taken when the
\* target exists, and one 'not found' warning lies in the other branch; when
\* the check finds the target missing, no removal instruction of the block is
\* executed, the warning is printed, and the next command executed is the one
\* that follows the block's check (the script goes on with the next task).
C21_GuardedRemoval ==
    run.state # "idle" =>
        \A k \in 1..Len(run.tasks) :
            run.tasks[k].type \in {K_delete_file, K_delete_folder, K_empty_folder,
                                   K_delete_folder_if_empty} =>
                LET path == ClaimedPath(run.tasks[k].details)
                    checks == LinesIn(k, "if exist \"{safe_path}\" (")
                IN /\ Cardinality(checks) = 1
                   /\ Cardinality(NotFoundIn(k)) = 1
                   /\ RemovalsIn(k) # {}
                   /\ \A g \in checks :
                         LET close == CloseOf(run.script, g + 1, 1)
                             else == ElseOf(run.script, g + 1, close, 1)
                         IN /\ run.script[g].v = <<path>>
                            /\ g < else /\ else < close /\ close \in BlockOf(k)
                            /\ \A p \in RemovalsIn(k) : g < p /\ p < else
                            /\ \A w \in NotFoundIn(k) :
                                  /\ else < w /\ w < close
                                  /\ run.script[w].v = <<path>>
                                  /\ RanWith(g, 0) => Ran(w)
                                  /\ Ran(w) => RanWith(g, 0)
                            /\ RanWith(g, 0) =>
                                  /\ ~OnDisk(run.disk, path)
                                  /\ \A p \in RemovalsIn(k) : ~Ran(p)
                                  /\ run.out[Len(run.out)].at <= close => run.pc = close + 1
                            /\ \A p \in RemovalsIn(k) : Ran(p) => RanWith(g, 1)

\* the folder of the first task was missing: its warning was printed, nothing
\* was removed, and the second task went on to delete the file that was there
C21_Witness ==
    /\ run.state = "ended"
    /\ run.tasks = <<Task(K_empty_folder, <<"t">>, <<>>),
                     Task(K_delete_file, <<"s", "/", "d">>, <<>>)>>
    /\ run.disk0[<<"t">>] = "absent"
    /\ run.disk0[<<"s", "\\", "d">>] = "full"
    /\ \E w \in NotFoundIn(1) : Ran(w)
    /\ \A p \in RemovalsIn(1) : ~Ran(p)
    /\ \E p \in RemovalsIn(2) : RanWith(p, 0)
    /\ ~OnDisk(run.disk, <<"s", "\\", "d">>)

\* C22: in the block of a delete_folder task, once the recursive rmdir has run
\* and the block is finished, the failure message has been printed and the
\* success message has not when the rmdir reported a status other than 0, and
\* the success message has been printed and the failure message has not when
\* it reported 0: the status tested is the one of that rmdir.
C22_OwnStatus ==
    run.state # "idle" =>
        \A k \in 1..Len(run.tasks) :
            run.tasks[k].type = K_delete_folder =>
                \A r \in LinesIn(k, "  rmdir /s /q \"{safe_path}\""),
                   f \in LinesIn(k, "    echo ERROR: Failed to delete folder with code %ERRORLEVEL%"),
                   g \in LinesIn(k, "    echo Successfully deleted folder and its contents: {safe_path}") :
                    (Ran(r) /\ Passed(r - 1)) =>
                        /\ RanWith(r, 1) => (Ran(f) /\ ~Ran(g))
                        /\ RanWith(r, 0) => (Ran(g) /\ ~Ran(f))

\* C23: the removal instructions of an empty_folder block are the rmdir of the
\* for loop, applied to the subdirectories of the target, and the del of the
\* files inside the target; none names the target itself.  A target that was
\* there when the block checked for it is still there afterwards (no other
\* task of the script naming it), and a subdirectory whose rmdir succeeded is
\* gone.
C23_FolderKept ==
    run.state # "idle" =>
        \A k \in 1..Len(run.tasks) :
            (/\ run.tasks[k].type = K_empty_folder
             /\ \A j \in 1..Len(run.tasks) :
                   run.tasks[j].type # K_empty_folder
                       => ClaimedPath(run.tasks[j].details) # ClaimedPath(run.tasks[k].details)) =>
                LET path == ClaimedPath(run.tasks[k].details)
                    each == LinesIn(k, "    rmdir /s /q \"%%i\" >nul 2>&1")
                    files == LinesIn(k, "  del /f /q \"{safe_path}\\*\" >nul 2>&1")
                IN /\ RemovalsIn(k) = each \cup files
                   /\ Cardinality(each) = 1
                   /\ Cardinality(files) = 1
                   /\ \A p \in each :
                         /\ run.script[p - 1].t = "  for /d %%i in (\"{safe_path}\\*\") do ("
                         /\ run.script[p - 1].v = <<path>>
                         /\ RanWith(p, 0) /\ ~RanWith(p, 1) => SubDirs(run.disk, path) = {}
                   /\ \A p \in files : run.script[p].v = <<path>>
                   /\ \A g \in LinesIn(k, "if exist \"{safe_path}\" (") :
                         RanWith(g, 1) => OnDisk(run.disk, path)
                   /\ OnDisk(run.disk0, path) => OnDisk(run.disk, path)

\* the folder t held the folder t\d: both removal instructions succeeded,
\* t\d is gone and t is there, empty
C23_Witness ==
    /\ run.state = "ended"
    /\ run.tasks = <<Task(K_empty_folder, <<"t">>, <<>>)>>
    /\ run.disk0[<<"t">>] = "full"
    /\ run.disk0[<<"t", "\\", "d">>] = "full"
    /\ \A p \in RemovalsIn(1) : RanWith(p, 0)
    /\ run.disk[<<"t">>] = "empty"
    /\ run.disk[<<"t", "\\", "d">>] = "absent"

\* the code of task k in the script last written, without its announcement
\* and its closing 'echo.'
CodeOf(k) ==
    LET at == RemAt(LastScript)
    IN SubSeq(LastScript, at[k] + 2,
              (IF k = Len(at) THEN Len(LastScript) - 1 ELSE at[k + 1]) - 3)

\* the texts interpolated into the lines of a block
Interpolated(code) == UNION {Range(code[p].v) : p \in 1..Len(code)}

\* the texts interpolated into the lines written by format string t
InterpolatedAt(code, t) ==
    UNION {Range(code[p].v) : p \in {q \in 1..Len(code) : code[q].t = t}}

\* C24: in the block of a screenshot, delete_file, delete_folder, empty_folder
\* or delete_folder_if_empty task every text interpolated into a line is the
\* stored path with each '/' replaced by '\' and nothing else changed; in a
\* backup_folder block it is the source or the destination changed in this
\* way, the source in the xcopy and the destination in the mkdir; open_app
\* and open_file interpolate the stored path unchanged.
C24_Separators ==
    Compiled =>
        \A k \in 1..Len(fcall.tasks) :
            LET task == fcall.tasks[k]
                code == CodeOf(k)
            IN /\ task.type \in {K_screenshot, K_delete_file, K_delete_folder,
                                 K_empty_folder, K_delete_folder_if_empty}
                     => Interpolated(code) = {ClaimedPath(task.details)}
               /\ task.type = K_backup_folder =>
                     /\ Interpolated(code) =
                            {ClaimedPath(task.details), ClaimedPath(task.additional)}
                     /\ InterpolatedAt(code, "xcopy \"{safe_source}\\*\" \"%dest_path%\" /E /H /C /I /Y")
                            = {ClaimedPath(task.details)}
                     /\ InterpolatedAt(code, "if not exist \"{safe_source}\" (")
                            = {ClaimedPath(task.details)}
                     /\ InterpolatedAt(code, "  mkdir \"{safe_dest}\"")
                            = {ClaimedPath(task.additional)}
                     /\ InterpolatedAt(code, "set \"dest_path={safe_dest}\\%source_name%\"")
                            = {ClaimedPath(task.additional)}
               /\ task.type \in {K_open_app, K_open_file}
                     => Interpolated(code) = {task.details}

\* a script was written for a file to delete and an application to open,
\* both stored as /s\/: the first block names \s\\, the second /s\/
C24_Witness ==
    /\ Compiled
    /\ fcall.tasks = <<Task(K_delete_file, <<"/", "s", "\\", "/">>, <<>>),
                       Task(K_open_app, <<"/", "s", "\\", "/">>, <<>>)>>
    /\ Interpolated(CodeOf(1)) = {<<"\\", "s", "\\", "\\">>}
    /\ Interpolated(CodeOf(2)) = {<<"/", "s", "\\", "/">>}

\* the script path the claims expect for a task-list path: the extension
\* replaced by .bat
ClaimedBat(path) ==
    (IF Len(path) >= 4 /\ SubSeq(path, Len(path) - 3, Len(path)) = <<".", "t", "x", "t">>
     THEN SubSeq(path, 1, Len(path) - 4)
     ELSE path) \o <<".", "b", "a", "t">>

\* C25: whenever a script has been handed to the launcher, the action was
\* Run, the store was not empty, the last File Handler call of the action was
\* a convert_to_bat of the stored tasks that returned, the task-list file and
\* the script on disk are the ones written from the stored tasks, and the path
\* launched is the current task-list path with its extension replaced by
\* .bat; and after a Run on an empty store, a Run whose save or compilation
\* raised, or a Run whose save dialog was cancelled, nothing was launched.
C25_LaunchAfterSave ==
    /\ gui.launched # <<>> =>
          /\ gui.action = "run"
          /\ gui.before # <<>>
          /\ gui.raised = <<>>
          /\ gui.current_file_path # <<>>
          /\ gui.launched = ClaimedBat(gui.current_file_path)
          /\ fcall.op = "convert_to_bat"
          /\ fcall.err = <<>>
          /\ fcall.tasks = gui.before
          /\ fs[SavedPath(gui.current_file_path)] = SaveText(gui.before, Stamp1)
          /\ ~Script(gui.before, gui.current_file_path).raised
          /\ fs[gui.launched] = Script(gui.before, gui.current_file_path).lines
    /\ (/\ gui.action = "run"
        /\ \/ gui.before = <<>>
           \/ gui.shown = "Error Saving File"
           \/ gui.current_file_path = <<>>)
          => gui.launched = <<>>

\* Run on an unsaved list of one task, with a path chosen in the dialog: the
\* script a.bat compiled from that task was launched
C25_Witness ==
    /\ gui.action = "run"
    /\ gui.steps = 1
    /\ Len(gui.before) = 1
    /\ gui.current_file_path = <<"a">>
    /\ gui.launched = <<"a", ".", "b", "a", "t">>
    /\ fs[gui.launched] = Script(gui.before, <<"a">>).lines

\* C26: in every save_tasks call that raises, the task-list file at the path
\* written to is after the call what it was before it (absent if it was
\* absent, with the same text otherwise); in every call that returns it holds
\* the new text.
C26_AllOrNothing ==
    [][(fcall.op = "none" /\ fcall'.op = "save_tasks") =>
          LET path == SavedPath(fcall'.path)
          IN IF fcall'.err # <<>>
             THEN /\ Exists(fs', path) <=> Exists(fs, path)
                  /\ Exists(fs, path) => fs'[path] = fs[path]
             ELSE /\ Exists(fs', path)
                  /\ fs'[path] = fcall'.text]_vars

\* how often x occurs in s
Count(s, x) == Cardinality({k \in 1..Len(s) : s[k] = x})

\* t is s with two neighbours exchanged
NeighboursSwapped(s, t) ==
    /\ Len(t) = Len(s)
    /\ \E i \in 1..(Len(s) - 1) :
          /\ t[i] = s[i + 1]
          /\ t[i + 1] = s[i]
          /\ \A k \in 1..Len(s) : k \notin {i, i + 1} => t[k] = s[k]

\* t is s without one of its elements, the others in their order
OneRemoved(s, t) ==
    /\ Len(t) = Len(s) - 1
    /\ \E i \in 1..Len(s) :
          \A k \in 1..Len(t) : t[k] = IF k < i THEN s[k] ELSE s[k + 1]

\* C27: every store operation changes the stored sequence in its own way
\* only: add_task appends one task; a delete_task that returns True removes
\* exactly one element and keeps the order of the others; a move that returns
\* True exchanges two neighbours, keeping the length and how often each task
\* occurs; clear_tasks leaves the empty sequence; set_tasks leaves the
\* sequence of the list it was given; a delete or move that returns False,
\* get_tasks and has_tasks leave the sequence as it was; and has_tasks returns
\* True exactly when the sequence is not empty.
C27_StoreChanges ==
    [][/\ call'.op = "add_task" => Tasks' = Append(Tasks, call'.arg)
       /\ (call'.op = "delete_task" /\ call'.ret = "True") => OneRemoved(Tasks, Tasks')
       /\ (call'.op \in {"move_task_up", "move_task_down"} /\ call'.ret = "True") =>
             /\ NeighboursSwapped(Tasks, Tasks')
             /\ \A x \in Range(Tasks) \cup Range(Tasks') : Count(Tasks', x) = Count(Tasks, x)
       /\ call'.op = "clear_tasks" => Tasks' = <<>>
       /\ call'.op = "set_tasks" => Tasks' = Deref(heap, held)
       /\ (call'.op \in {"delete_task", "move_task_up", "move_task_down"}
              /\ call'.ret # "True") =>
             /\ call'.ret = "False"
             /\ Tasks' = Tasks
       /\ call'.op \in {"get_tasks", "has_tasks"} => Tasks' = Tasks
       /\ call'.op = "has_tasks" => (call'.ret = "True" <=> Len(Tasks) > 0)
       /\ call'.op = "has_tasks" => call'.ret \in {"True", "False"}]_vars

\* move_task_down(0) has just exchanged two different tasks
C27_Witness ==
    /\ call.op = "move_task_down"
    /\ call.index = 0
    /\ call.ret = "True"
    /\ Len(Tasks) = 2
    /\ Tasks[1].type = K_zz
    /\ Tasks[2].type = K_delay

\* C30: in the block of a close_app task one taskkill /f /im names the image
\* given in details and one line after it prints the success message when
\* the taskkill reported 0 and the failure message otherwise; both messages
\* name that image; and the script goes on after the message.
C30_CloseApp ==
    run.state # "idle" =>
        \A k \in 1..Len(run.tasks) :
            run.tasks[k].type = K_close_app =>
                LET kill == LinesIn(k, "taskkill /f /im \"{details}\" >nul 2>&1")
                    said == LinesIn(k, "if %ERRORLEVEL% EQU 0 (echo Successfully closed {details}) else (echo Failed to close {details})")
                IN /\ Cardinality(kill) = 1
                   /\ Cardinality(said) = 1
                   /\ \A t \in kill, m \in said :
                         /\ m = t + 1
                         /\ run.script[t].v = <<run.tasks[k].details>>
                         /\ run.script[m].v = <<run.tasks[k].details, run.tasks[k].details>>
                         /\ Ran(m) =>
                               /\ RanWith(t, 0) => (RanWith(m, 1) /\ ~RanWith(m, 0))
                               /\ RanWith(t, 1) => (RanWith(m, 0) /\ ~RanWith(m, 1))
                         /\ run.state = "ended" => Ran(m)

\* the menu action just taken saved the task list: no error was shown and
\* the window has a file path, whose file exists
SavedNow ==
    /\ gui.shown = "" /\ gui.raised = <<>>
    /\ gui.current_file_path # <<>>
    /\ Exists(fs, gui.current_file_path)

\* C28: when exit_application has shown the unsaved-changes prompt and the
\* user chose to save, the main window is destroyed only if the task list
\* was saved; otherwise the application stays open.
C28_DestroyedOnlyIfSaved ==
    (gui.action = "exit" /\ gui.prompted /\ gui.response = "yes" /\ gui.destroyed)
        => SavedNow

\* C29: with tasks stored, exit_application shows the unsaved-changes prompt
\* exactly when no file path is set or an add, delete or move changed the
\* store after the last completed save or load; so a failed save leaves the
\* prompt due and a failed delete or move does not make it due.
C29_PromptIffUnsaved ==
    [][(ExitApplication /\ Len(_tasks) > 0)
          => (gui'.prompted <=> (gui.current_file_path = <<>> \/ gui.changed = "edit"))]_vars

\* the window was closed with a file path set and a change made after the
\* last save or load, and the prompt was shown
C29_Witness ==
    /\ gui.action = "exit" /\ gui.prompted /\ gui.response = "cancel"
    /\ gui.current_file_path # <<>>
    /\ gui.changed = "edit"
    /\ gui.raised = <<>>

\* a File Handler call raised in the menu action just taken
FileHandlerRaised ==
    /\ gui'.steps # gui.steps
    /\ gui'.action \in {"open", "save", "save_as", "run"}
    /\ gui'.shown \in {"Error Opening File", "Error Saving File"}

\* the message chain starts with the File Handler's own message and goes on
\* with the message of the error it caught
Wrapped(err) ==
    /\ Len(err) >= 2
    /\ err[1] \in {SaveError, LoadError, BatError}
    /\ err[Len(err)] \notin {SaveError, LoadError, BatError}

\* C17: whenever save_tasks, load_tasks or convert_to_bat raises in the open,
\* save, save-as or run action of the window, what the action catches is the
\* File Handler's wrapped error (its contextual message followed by the
\* cause), and the Task Store holds after the action exactly the sequence of
\* tasks it held before it.
C17_ErrorsLeaveStore ==
    [][FileHandlerRaised =>
          /\ Wrapped(gui'.raised)
          /\ gui'.raised = fcall'.err
          /\ Tasks' = Tasks]_vars

\* Open has just failed to read the file while two tasks were stored, and
\* the store still holds them; the File Handler call before that one was a
\* convert_to_bat that raised its own wrapped error
C17_Witness ==
    /\ gui.action = "open"
    /\ gui.raised = <<LoadError, "OSError">>
    /\ Len(gui.before) = 2
    /\ Tasks = gui.before
    /\ fprev.op = "convert_to_bat"
    /\ fprev.err # <<>>
    /\ fprev.err[1] = BatError

\* C18: in a backup_folder block, when the source path does not exist at run
\* time, execution reaches that block's 'Backup operation failed' message and
\* executes neither the xcopy instruction nor the success message of the block.
C18_MissingSource ==
    run.state # "idle" =>
        \A k \in 1..Len(run.tasks) :
            run.tasks[k].type = K_backup_folder =>
                \A p \in LinesIn(k, "if not exist \"{safe_source}\" (") :
                    RanWith(p, 1) =>
                        /\ \A x \in LinesIn(k, "xcopy \"{safe_source}\\*\" \"%dest_path%\" /E /H /C /I /Y") :
                              ~Ran(x)
                        /\ \A g \in LinesIn(k, "  echo Successfully backed up {safe_source} to %dest_path%") :
                              ~Ran(g)
                        /\ Passed(p) =>
                              \E m \in LinesIn(k, "echo Backup operation failed") : Ran(m)

\* a backup whose source folder was missing has run to the end of the script
C18_Witness ==
    /\ run.state = "ended"
    /\ TypesOf(run.tasks) = <<K_backup_folder, K_open_url>>
    /\ \E p \in LinesIn(1, "if not exist \"{safe_source}\" (") : RanWith(p, 1)
    /\ \E m \in LinesIn(1, "echo Backup operation failed") : Ran(m)
    /\ \E p \in LinesIn(2, "start \"\" \"{url}\"") : Ran(p)

\* the number of the block that line p belongs to (0: the header)
BlockNo(p) ==
    Cardinality({k \in 1..Len(RemAt(run.script)) : RemAt(run.script)[k] <= p})

\* control only moves forward: no line is executed twice
OnlyForward ==
    \A j \in 1..(Len(run.out) - 1) : run.out[j].at < run.out[j + 1].at

\* a goto :backup_error is followed by the failure message of its own block,
\* and that message by the line that ends the block
OwnErrorLabel ==
    \A j \in 1..(Len(run.out) - 1) :
        LET p == run.out[j].at
            next == run.out[j + 1].at
        IN /\ (run.script[p].t \in GotoLines /\ LabelOf(run.script[p].t) = "backup_error") =>
                  /\ next \in LinesIn(BlockNo(p), "echo Backup operation failed")
                  /\ run.script[next - 1].t = ":backup_error"
           /\ run.script[p].t = "echo Backup operation failed" =>
                  /\ BlockNo(next) = BlockNo(p)
                  /\ run.script[next] = Ln("echo.", 0, <<>>)
                  /\ next = p + 2

\* a missing source and a failed copy both end in the block's failure message
FailureJumps ==
    \A k \in 1..Len(run.tasks) :
        run.tasks[k].type = K_backup_folder =>
            \A m \in LinesIn(k, "echo Backup operation failed") :
                /\ \A p \in LinesIn(k, "if not exist \"{safe_source}\" (") :
                      (RanWith(p, 1) /\ Passed(p)) => Ran(m)
                /\ \A x \in LinesIn(k, "xcopy \"{safe_source}\\*\" \"%dest_path%\" /E /H /C /I /Y") :
                      (RanWith(x, 1) /\ Passed(x + 1)) => Ran(m)
                /\ Ran(m) => \E j \in 1..Len(run.out) :
                      /\ BlockNo(run.out[j].at) = k
                      /\ run.script[run.out[j].at].t \in GotoLines
                      /\ LabelOf(run.script[run.out[j].at].t) = "backup_error"

\* every block was entered and the completion message printed
NothingSkipped ==
    /\ \A k \in 1..Len(RemAt(run.script)) : Ran(RemAt(run.script)[k]) /\ Ran(RemAt(run.script)[k] + 1)
    /\ Ran(Len(run.script) - 1)

CompletionPrinted ==
    /\ run.state # "idle"
    /\ Ran(Len(run.script) - 1)
    /\ run.script[Len(run.script) - 1] = Ln("echo All tasks completed.", 0, <<>>)

C20_OnlyIfEmpty ==
    run.state # "idle" =>
        \A k \in 1..Len(run.tasks) :
            run.tasks[k].type = K_delete_folder_if_empty =>
                LET path == [n \in 1..Len(run.tasks[k].details) |->
                                IF run.tasks[k].details[n] = "/" THEN "\\"
                                ELSE run.tasks[k].details[n]]
                    removals == {p \in BlockOf(k) : run.script[p].t \in CommandLines}
                IN /\ removals = LinesIn(k, "  rmdir /q \"{safe_path}\"")
                   /\ Cardinality(removals) = 1
                   /\ \A p \in removals : run.script[p].v = <<path>>
                   /\ run.disk0[path] = "full" => run.disk[path] = "full"
                   /\ \A c \in LinesIn(k, "  if exist \"{safe_path}\" (") :
                         /\ \A p \in removals : p < c /\ (Ran(c) => Ran(p))
                         /\ \A g \in LinesIn(k, "    echo Successfully deleted empty folder: {safe_path}") :
                               /\ Ran(g) => (RanWith(c, 0) /\ ~OnDisk(run.disk, path))
                               /\ (RanWith(c, 0) /\ Passed(c)) => Ran(g)
                         /\ \A w \in LinesIn(k, "    echo WARNING: Could not delete folder {safe_path} - it may not be empty or is locked") :
                               /\ Ran(w) => (RanWith(c, 1) /\ ~Ran(c + 3))
                               /\ (RanWith(c, 1) /\ Passed(c)) => Ran(w)

\* on a folder that is not empty the removal failed and the warning was
\* printed; the folder is still there
C20_Witness ==
    /\ run.state = "ended"
    /\ run.tasks = <<Task(K_delete_folder_if_empty, <<"s", "/", "d">>, <<>>)>>
    /\ run.disk0[<<"s", "\\", "d">>] = "full"
    /\ run.disk[<<"s", "\\", "d">>] = "full"
    /\ \E p \in LinesIn(1, "  rmdir /q \"{safe_path}\"") : RanWith(p, 1)
    /\ \E w \in LinesIn(1, "    echo WARNING: Could not delete folder {safe_path} - it may not be empty or is locked") :
          Ran(w)

\* the task sequences that raise in convert_to_bat
HasBadDelay(tasks) ==
    \E k \in 1..Len(tasks) : tasks[k].type = K_delay /\ ~IsInt(tasks[k].details)

\* C15: a task whose type is not a recognized kind (the empty string and a
\* recognized name in other letter case included) does not make convert_to_bat
\* raise; its block is the announcement and an "Unknown task type" notice
\* naming the type, and every task after it still gets its own block.
C15_UnknownKind ==
    (fcall.op = "convert_to_bat" /\ fcall.io = "ok") =>
        /\ (\A k \in 1..Len(fcall.tasks) : fcall.tasks[k].type \notin Recognized)
              => fcall.err = <<>>
        /\ ~HasBadDelay(fcall.tasks) => fcall.err = <<>>
        /\ Compiled =>
              LET at == RemAt(LastScript)
              IN /\ Len(at) = Len(fcall.tasks)
                 /\ \A k \in 1..Len(fcall.tasks) :
                       fcall.tasks[k].type \notin Recognized =>
                           SubSeq(LastScript, at[k], at[k] + 4) =
                               <<Ln("REM Task {i}: {task_type}", k, <<fcall.tasks[k].type>>),
                                 Ln("echo Executing Task {i}: {task_type}", k,
                                    <<fcall.tasks[k].type>>),
                                 Ln("echo Unknown task type: {task_type}", 0,
                                    <<fcall.tasks[k].type>>),
                                 Ln("echo.", 0, <<>>),
                                 Ln("", 0, <<>>)>>

\* "Delay" with a non-numeric detail was compiled as an unknown type, and the
\* delay task after it got its block
C15_Witness ==
    /\ fcall.op = "convert_to_bat" /\ Compiled
    /\ fcall.tasks = <<Task(<<"D", "e", "l", "a", "y">>, <<"x">>, <<>>),
                       Task(K_delay, <<"3">>, <<>>)>>
    /\ Len(RemAt(LastScript)) = 2
    /\ LastScript[RemAt(LastScript)[2] + 2].t = "echo Waiting for {seconds} seconds..."

\* C2: convert_to_bat, when the script file can be written, raises exactly
\* when some task has type "delay" and details that do not parse as an
\* integer; otherwise, whatever the types are, it returns the script's path
\* and the script it wrote is not empty.
C2_Totality ==
    (fcall.op = "convert_to_bat" /\ fcall.io = "ok") =>
        /\ (fcall.err # <<>>) <=> HasBadDelay(fcall.tasks)
        /\ fcall.err = <<>> =>
              /\ fcall.rpath = get_bat_path(fcall.path)
              /\ Exists(fs, fcall.rpath)
              /\ Len(fs[fcall.rpath]) > 0

\* a task of unrecognized type and a shutdown with a non-numeric delay were
\* converted without an error, and the script ends with its closing lines
C2_Witness ==
    /\ fcall.op = "convert_to_bat" /\ fcall.io = "ok" /\ fcall.err = <<>>
    /\ fcall.tasks = <<Task(K_zz, <<"b">>, <<"c">>), Task(K_shutdown, <<"x">>, <<>>)>>
    /\ Exists(fs, fcall.rpath)
    /\ fs[fcall.rpath][Len(fs[fcall.rpath])] = Ln("pause", 0, <<>>)

\* C3: delete_task(index) with index outside [0, len), every negative index
\* and index = len included, returns False without raising and leaves the
\* stored sequence unchanged; with index inside [0, len) it returns True and
\* removes exactly the element at that position.
C3_DeleteTask ==
    [][call'.op = "delete_task" =>
        IF 0 <= call'.index /\ call'.index < Len(Tasks)
        THEN /\ call'.ret = "True"
             /\ Len(Tasks') = Len(Tasks) - 1
             /\ \A k \in 1..Len(Tasks') :
                    Tasks'[k] = IF k <= call'.index THEN Tasks[k] ELSE Tasks[k + 1]
        ELSE /\ call'.ret = "False"
             /\ Tasks' = Tasks]_vars

C3_Witness ==
    /\ call.op = "delete_task"
    /\ call.index < 0
    /\ call.ret = "False"
    /\ Len(Tasks) = MaxTasks

\* C4: move_task_up(i) swaps element i with its predecessor and returns True
\* exactly when 0 < i < len; move_task_down(i) swaps it with its successor and
\* returns True exactly when 0 <= i < len-1; otherwise the call returns False
\* and the sequence is unchanged.
Exchanged(s, i, j) ==
    [k \in 1..Len(s) |-> IF k = i + 1 THEN s[j + 1] ELSE IF k = j + 1 THEN s[i + 1] ELSE s[k]]

C4_Move ==
    [][/\ call'.op = "move_task_up" =>
            IF 0 < call'.index /\ call'.index < Len(Tasks)
            THEN call'.ret = "True" /\ Tasks' = Exchanged(Tasks, call'.index, call'.index - 1)
            ELSE call'.ret = "False" /\ Tasks' = Tasks
       /\ call'.op = "move_task_down" =>
            IF 0 <= call'.index /\ call'.index < Len(Tasks) - 1
            THEN call'.ret = "True" /\ Tasks' = Exchanged(Tasks, call'.index, call'.index + 1)
            ELSE call'.ret = "False" /\ Tasks' = Tasks]_vars

C4_Witness ==
    /\ call.op = "move_task_up"
    /\ call.index = 0
    /\ call.ret = "False"
    /\ Len(Tasks) >= 2
    /\ Tasks[1] # Tasks[Len(Tasks)]

\* C5: whenever move_task_up(i) succeeds, a following move_task_down(i-1)
\* succeeds and restores the sequence to what it was before the two calls.
UpThenDown ==
    /\ prev.op = "move_task_up"
    /\ prev.ret = "True"
    /\ call.op = "move_task_down"
    /\ call.index = prev.index - 1

C5_UpThenDown == UpThenDown => (call.ret = "True" /\ Tasks = prepre)

C5_Witness == UpThenDown /\ Tasks = prepre /\ pre # prepre

\* C6: get_tasks returns a defensive copy: no mutation the caller performs on
\* the returned value (adding, removing or reordering entries of the returned
\* list, or changing a field of a returned record) changes what a later
\* get_tasks returns.
C6_DefensiveCopy ==
    [][(call.op = "get_tasks" /\ call'.op \in CallerOps) => Tasks' = Tasks]_vars

\* C7: delete_task(i) followed by add_task of the deleted task's fields.
DeleteThenReAdd ==
    /\ prev.op = "delete_task"
    /\ prev.ret = "True"
    /\ call.op = "add_task"
    /\ call.arg = prepre[prev.index + 1]

\* C7 as claimed: for every valid index the resulting order differs from the
\* original one.
C7_AlwaysDiffers == DeleteThenReAdd => Tasks # prepre

\* C7 amended: the result is the original sequence with element i moved to the
\* end; it differs from the original exactly when some element after position
\* i differs from the deleted one (never when i is the last index).
C7_MovedToEnd ==
    DeleteThenReAdd =>
        /\ Len(Tasks) = Len(prepre)
        /\ \A k \in 1..Len(prepre) :
              Tasks[k] = IF k <= prev.index THEN prepre[k]
                         ELSE IF k < Len(prepre) THEN prepre[k + 1]
                         ELSE prepre[prev.index + 1]
        /\ (Tasks # prepre) <=>
              \E j \in (prev.index + 2)..Len(prepre) : prepre[j] # prepre[prev.index + 1]

C7_Witness == DeleteThenReAdd /\ Tasks # prepre

\* C8: add_task(type, details, additional) always succeeds, appends exactly
\* one record holding the three values verbatim as the new last element and
\* leaves every earlier element and its position unchanged; the type is not
\* checked against the known kinds.
C8_AddTask ==
    [][call'.op = "add_task" =>
        /\ call'.ret = "None"
        /\ Len(Tasks') = Len(Tasks) + 1
        /\ Tasks'[Len(Tasks')] = call'.arg
        /\ \A k \in 1..Len(Tasks) : Tasks'[k] = Tasks[k]]_vars

C8_Witness ==
    /\ call.op = "add_task"
    /\ call.arg.type = K_zz
    /\ Len(Tasks) >= 2
    /\ Tasks[Len(Tasks)] = call.arg
    /\ Tasks[1].type # K_zz

\* the lines of a text, and the 1-based position of the first c in s
LinesOf(text) == SplitAll(text, "\n")

FirstAt(s, c) == CHOOSE k \in 1..Len(s) : s[k] = c /\ \A j \in 1..(k - 1) : s[j] # c

\* C9: parse_text_to_tasks produces a task for a non-blank, non-comment line
\* only if the line starts with '[', contains a ']' and contains at least one
\* '|' located after the first ']'; every other line is skipped and
\* contributes no task, and no input text makes the function raise.
WellShaped(raw) ==
    LET l == Strip(raw)
    IN /\ l # <<>>
       /\ l[1] = "["
       /\ Contains(l, "]")
       /\ \E p \in (FirstAt(l, "]") + 1)..Len(l) : l[p] = "|"

C9_OnlyShapedLines ==
    fcall.op = "parse_text_to_tasks" =>
        /\ fcall.err = <<>>
        /\ Len(fcall.rtasks) =
              Cardinality({k \in 1..Len(LinesOf(fcall.text)) :
                              WellShaped(LinesOf(fcall.text)[k])})

\* C10: for every line that parse_text_to_tasks accepts: type is the trimmed
\* text between '[' and the first ']'; the text after that ']' is split at its
\* first '|' into details (trimmed) and a remainder; if the remainder contains
\* '|', additional is the trimmed text before the remainder's first '|' and the
\* tail is discarded, otherwise additional is the whole trimmed remainder.
\* (A text with no '|' splits into itself and no remainder.)
ExtractedFrom(l) ==
    LET after == SubSeq(l, FirstAt(l, "]") + 1, Len(l))
        rem == SubSeq(after, FirstAt(after, "|") + 1, Len(after))
    IN [type |-> Strip(SubSeq(l, 2, FirstAt(l, "]") - 1)),
        details |-> IF Contains(after, "|")
                    THEN Strip(SubSeq(after, 1, FirstAt(after, "|") - 1))
                    ELSE Strip(after),
        additional |-> IF ~Contains(after, "|") THEN <<>>
                       ELSE IF Contains(rem, "|")
                       THEN Strip(SubSeq(rem, 1, FirstAt(rem, "|") - 1))
                       ELSE Strip(rem)]

AcceptedLines(text) == SelectSeq(LinesOf(text), LAMBDA raw : ParseLine(raw) # <<>>)

====
